---- MODULE Spec2Model ----
(***************************************************************************)
(* Model of the zarrs-cache tiers: the bounded in-memory LRU               *)
(* (src/cache/memory.rs), the file-per-key disk store (src/cache/disk.rs)  *)
(* and the hybrid engine that composes them (src/cache/hybrid.rs).         *)
(*                                                                         *)
(* Time is a counter of ticks (TicksPerSec ticks make one second); every   *)
(* Instant::now() of one operation reads the same tick.  Keys are strings  *)
(* modelled as sequences of characters, values are sequences of bytes.     *)
(***************************************************************************)
EXTENDS Integers, Sequences, FiniteSets, TLC

VARIABLES now, config, memory_cache, disk_cache, access_tracker,
          last_maintenance, nops, last, written, offered, tasks, stream,
          access_patterns

vars == <<now, config, memory_cache, disk_cache, access_tracker,
          last_maintenance, nops, last, written, offered, tasks, stream, access_patterns>>

----------------------------------------------------------------------------
(* Bounds of the model *)

MaxTime == 2
MemOps == 4
MemMax == 2
DiskOps == 4
DiskMax == 2
ConcOps == 3
TtlTicks == 1
HybridMaxTime == 2
HybridOps == 4
HybridMemMax == 1
HybridDiskMax == 2
DemotionTicks == 1
MaintenanceTicks == 2
StreamMaxCap == 3
ShortOps == 3
MaxDim == 2
CoordMax == 2
CoordNeg == 1
MaxDistance == 2
MaxLookahead == 3
WarmOps == 3
WarmMemMax == 2
MetricsOps == 3
MaintOps == 4
MaintMaxTime == 4
GetConcOps == 3
PrefetchOps == 1
PrefetchMemMax == 2
MaxQueue == 2
MaxKeys == 2
StepOps == 3

(* Resolution of the clock: ticks per second *)
TicksPerSec == 2

(* Option<T> *)
None == <<>>
Some(x) == <<x>>
IsSome(o) == Len(o) = 1
Unwrap(o) == o[1]

(* Keys: "a/b", "a_b" (same file name as "a/b" after sanitising) and "c" *)
KeyAB == <<"a", "/", "b">>
KeyA_B == <<"a", "_", "b">>
KeyC == <<"c">>
Keys == {KeyAB, KeyA_B, KeyC}

(* Values: byte strings of length 1, 2 and 3 *)
V1 == <<1>>
V12 == <<1, 2>>
V123 == <<1, 2, 3>>
Values == {V1, V12, V123}

(* The hybrid engine is driven with two keys and the two shorter values *)
HybridKeys == {KeyAB, KeyC}
HybridValues == {V1, V12}

RECURSIVE SumLen(_)
SumLen(s) == IF s = <<>> THEN 0 ELSE Len(Head(s).data) + SumLen(Tail(s))

----------------------------------------------------------------------------
(* Memory tier: LruMemoryCache.  cache is the LRU container, least         *)
(* recently used entry first, most recently used entry last.               *)

MemNew == [cache |-> <<>>, current_size |-> 0, hits |-> 0, misses |-> 0]

mem_is_expired(entry, t, ttl) ==
    IF IsSome(ttl) THEN t - entry.timestamp > Unwrap(ttl) ELSE FALSE

mem_cleanup_expired(m, t, ttl) ==
    IF ttl = None THEN m
    ELSE LET kept == SelectSeq(m.cache, LAMBDA e : ~mem_is_expired(e, t, ttl))
             gone == SelectSeq(m.cache, LAMBDA e : mem_is_expired(e, t, ttl))
         IN  [m EXCEPT !.cache = kept,
                       !.current_size = m.current_size - SumLen(gone)]

RECURSIVE mem_evict_if_needed_mru(_, _, _)
mem_evict_if_needed_mru(m, incoming_size, max_size_bytes) ==
    IF m.current_size + incoming_size > max_size_bytes
    THEN IF m.cache # <<>>
         THEN mem_evict_if_needed_mru(
                  [m EXCEPT !.cache = SubSeq(m.cache, 1, Len(m.cache) - 1),
                            !.current_size = m.current_size
                                               - Len(m.cache[Len(m.cache)].data)],
                  incoming_size, max_size_bytes)
         ELSE [m |-> m, ok |-> FALSE]
    ELSE [m |-> m, ok |-> TRUE]

RECURSIVE mem_evict_if_needed(_, _, _)
mem_evict_if_needed(m, incoming_size, max_size_bytes) ==
    IF m.current_size + incoming_size > max_size_bytes
    THEN IF m.cache # <<>>
         THEN mem_evict_if_needed(
                  [m EXCEPT !.cache = Tail(m.cache),
                            !.current_size = m.current_size - Len(Head(m.cache).data)],
                  incoming_size, max_size_bytes)
         ELSE [m |-> m, ok |-> FALSE]
    ELSE [m |-> m, ok |-> TRUE]

MemHas(m, key) == \E i \in 1..Len(m.cache) : m.cache[i].key = key
MemEntry(m, key) == m.cache[CHOOSE i \in 1..Len(m.cache) : m.cache[i].key = key]
MemWithout(m, key) == SelectSeq(m.cache, LAMBDA e : e.key # key)

mem_get_expired_uncounted(m0, key, t, ttl) ==
    LET m == m0
    IN  IF MemHas(m, key)
        THEN LET entry == MemEntry(m, key)
             IN  IF mem_is_expired(entry, t, ttl)
                 THEN [m |-> [m EXCEPT !.cache = MemWithout(m, key),
                                       !.current_size = m.current_size - Len(entry.data)],
                       res |-> None]
                 ELSE [m |-> [m EXCEPT !.cache = Append(MemWithout(m, key), entry),
                                       !.hits = m.hits + 1],
                       res |-> Some(entry.data)]
        ELSE [m |-> [m EXCEPT !.misses = m.misses + 1], res |-> None]

mem_get(m0, key, t, ttl) ==
    LET m == mem_cleanup_expired(m0, t, ttl)
    IN  IF MemHas(m, key)
        THEN LET entry == MemEntry(m, key)
             IN  IF mem_is_expired(entry, t, ttl)
                 THEN [m |-> [m EXCEPT !.cache = MemWithout(m, key),
                                       !.current_size = m.current_size - Len(entry.data),
                                       !.misses = m.misses + 1],
                       res |-> None]
                 ELSE [m |-> [m EXCEPT !.cache = Append(MemWithout(m, key), entry),
                                       !.hits = m.hits + 1],
                       res |-> Some(entry.data)]
        ELSE [m |-> [m EXCEPT !.misses = m.misses + 1], res |-> None]

mem_put(m, key, value, t) ==
    [m EXCEPT !.cache = Append(MemWithout(m, key),
                               [key |-> key, data |-> value, timestamp |-> t]),
              !.current_size = m.current_size + Len(value)]

mem_set(m0, key, value, t, max_size_bytes) ==
    LET ev == mem_evict_if_needed(m0, Len(value), max_size_bytes)
    IN  IF ~ev.ok THEN [m |-> ev.m, ok |-> FALSE]
        ELSE [m |-> mem_put(ev.m, key, value, t), ok |-> TRUE]

mem_remove(m, key) ==
    IF MemHas(m, key)
    THEN [m EXCEPT !.cache = MemWithout(m, key),
                   !.current_size = m.current_size - Len(MemEntry(m, key).data)]
    ELSE m

mem_clear(m) == [m EXCEPT !.cache = <<>>, !.current_size = 0]

mem_size(m) == m.current_size

mem_stats(m) == [hits |-> m.hits, misses |-> m.misses,
                 size_bytes |-> m.current_size, entry_count |-> Len(m.cache)]

----------------------------------------------------------------------------
(* Disk tier: DiskCache.  index maps a key to its CacheMetadata (the       *)
(* file_path of a key is key_to_path(key)); files is the content of        *)
(* cache_dir, a map from the paths that exist to their bytes.  Writing a   *)
(* file is assumed to succeed; reading and removing fail exactly when the  *)
(* file does not exist.                                                    *)

DiskNew == [index |-> <<>>, files |-> <<>>, current_size |-> 0,
            hits |-> 0, misses |-> 0]

key_to_path(key) ==
    [i \in 1..Len(key) |-> IF key[i] \in {"/", "\\"} THEN "_" ELSE key[i]]
        \o <<".cache">>

disk_is_expired_by_access(metadata, t, ttl) ==
    IF IsSome(ttl) THEN t - metadata.last_accessed > Unwrap(ttl) ELSE FALSE

disk_is_expired(metadata, t, ttl) ==
    IF IsSome(ttl) THEN t - metadata.created_at > Unwrap(ttl) ELSE FALSE

Without(f, ks) == [x \in DOMAIN f \ ks |-> f[x]]
With(f, k, v) == [x \in DOMAIN f \cup {k} |-> IF x = k THEN v ELSE f[x]]

RECURSIVE SumSizes(_)
SumSizes(index) ==
    IF DOMAIN index = {} THEN 0
    ELSE LET k == CHOOSE x \in DOMAIN index : TRUE
         IN  index[k].size + SumSizes(Without(index, {k}))

(* index.remove(key); fs::remove_file(file_path); current_size -= size *)
DiskDrop(d, key) ==
    [d EXCEPT !.index = Without(d.index, {key}),
              !.files = Without(d.files, {key_to_path(key)}),
              !.current_size = d.current_size - d.index[key].size]

disk_cleanup_expired(d, t, ttl) ==
    IF ttl = None THEN d
    ELSE LET expired_keys == {k \in DOMAIN d.index : disk_is_expired(d.index[k], t, ttl)}
         IN  [d EXCEPT !.index = Without(d.index, expired_keys),
                       !.files = Without(d.files, {key_to_path(k) : k \in expired_keys}),
                       !.current_size = d.current_size
                                          - SumSizes([k \in expired_keys |-> d.index[k]])]

LruKeys_by_created(index) ==
    {k \in DOMAIN index :
        \A o \in DOMAIN index : index[k].created_at <= index[o].created_at}

(* min_by_key over the HashMap: any key whose last_accessed is minimal *)
LruKeys(index) ==
    {k \in DOMAIN index :
        \A o \in DOMAIN index : index[k].last_accessed <= index[o].last_accessed}

RECURSIVE disk_evict_if_needed_keep_one(_, _, _)
disk_evict_if_needed_keep_one(d, incoming_size, max_size_bytes) ==
    IF max_size_bytes = None THEN {[d |-> d, ok |-> TRUE]}
    ELSE IF d.current_size + incoming_size > Unwrap(max_size_bytes)
         THEN IF Cardinality(DOMAIN d.index) > 1
              THEN UNION {disk_evict_if_needed_keep_one(DiskDrop(d, k), incoming_size,
                                                        max_size_bytes)
                            : k \in LruKeys(d.index)}
              ELSE {[d |-> d, ok |-> FALSE]}
         ELSE {[d |-> d, ok |-> TRUE]}

(* The set of outcomes of evict_if_needed, one per order of breaking ties *)
RECURSIVE disk_evict_if_needed(_, _, _)
disk_evict_if_needed(d, incoming_size, max_size_bytes) ==
    IF max_size_bytes = None THEN {[d |-> d, ok |-> TRUE]}
    ELSE IF d.current_size + incoming_size > Unwrap(max_size_bytes)
         THEN IF DOMAIN d.index # {}
              THEN UNION {disk_evict_if_needed(DiskDrop(d, k), incoming_size, max_size_bytes)
                            : k \in LruKeys(d.index)}
              ELSE {[d |-> d, ok |-> FALSE]}
         ELSE {[d |-> d, ok |-> TRUE]}

(* get after its cleanup_expired: the lookup and the read, under the index lock *)
disk_lookup(d, key, t, ttl) ==
    IF key \in DOMAIN d.index
    THEN LET metadata == d.index[key]
             file_path == key_to_path(key)
         IN  IF disk_is_expired(metadata, t, ttl)
             THEN [d |-> [DiskDrop(d, key) EXCEPT !.misses = d.misses + 1],
                   res |-> None]
             ELSE IF file_path \in DOMAIN d.files
                  THEN [d |-> [d EXCEPT !.index[key].last_accessed = t,
                                        !.hits = d.hits + 1],
                        res |-> Some(d.files[file_path])]
                  ELSE [d |-> [d EXCEPT !.index = Without(d.index, {key}),
                                        !.current_size = d.current_size - metadata.size,
                                        !.misses = d.misses + 1],
                        res |-> None]
    ELSE [d |-> [d EXCEPT !.misses = d.misses + 1], res |-> None]

disk_get(d0, key, t, ttl) ==
    disk_lookup(disk_cleanup_expired(d0, t, ttl), key, t, ttl)

disk_index_update_keep_old_size(d, key, value, t) ==
    [d EXCEPT !.index = With(d.index, key,
                             [size |-> Len(value), created_at |-> t,
                              last_accessed |-> t]),
              !.current_size = d.current_size + Len(value)]

(* The index update of set, under the index lock *)
disk_index_update(d, key, value, t) ==
    LET old_size == IF key \in DOMAIN d.index THEN d.index[key].size ELSE 0
    IN  [d EXCEPT !.index = With(d.index, key,
                                 [size |-> Len(value), created_at |-> t,
                                  last_accessed |-> t]),
                  !.current_size = d.current_size - old_size + Len(value)]

(* get whose fs::read returns Err although the file exists (an I/O error): *)
(* the Err arm drops the index entry and counts a miss; the file stays.    *)
disk_get_read_error(d0, key, t, ttl) ==
    LET d == disk_cleanup_expired(d0, t, ttl)
    IN  [d |-> [d EXCEPT !.index = Without(d.index, {key}),
                         !.current_size = d.current_size - d.index[key].size,
                         !.misses = d.misses + 1],
         res |-> None]

(* fs::write opens the file truncating it, then writes the bytes chunk by  *)
(* chunk at its own offset; bytes left unwritten below the offset read 0.  *)
fs_create(files, path) == With(files, path, <<>>)

fs_write_at(files, path, value, off, n) ==
    LET old == IF path \in DOMAIN files THEN files[path] ELSE <<>>
        len == IF Len(old) > n THEN Len(old) ELSE n
    IN  With(files, path,
             [i \in 1..len |-> IF i > off /\ i <= n THEN value[i]
                               ELSE IF i <= Len(old) THEN old[i] ELSE 0])

(* fs::write run to completion, then the index update of set *)
disk_insert(d, key, value, t) ==
    disk_index_update(
        [d EXCEPT !.files = fs_write_at(fs_create(d.files, key_to_path(key)),
                                        key_to_path(key), value, 0, Len(value))],
        key, value, t)

(* The set of outcomes of set *)
disk_set(d0, key, value, t, max_size_bytes) ==
    {IF ev.ok THEN [d |-> disk_insert(ev.d, key, value, t), ok |-> TRUE]
              ELSE [d |-> ev.d, ok |-> FALSE]
        : ev \in disk_evict_if_needed(d0, Len(value), max_size_bytes)}

disk_remove(d, key) ==
    IF key \in DOMAIN d.index THEN DiskDrop(d, key) ELSE d

disk_clear_keep_size(d) ==
    [d EXCEPT !.index = <<>>,
              !.files = Without(d.files, {key_to_path(k) : k \in DOMAIN d.index})]

disk_clear(d) ==
    [d EXCEPT !.index = <<>>,
              !.files = Without(d.files, {key_to_path(k) : k \in DOMAIN d.index}),
              !.current_size = 0]

disk_size(d) == d.current_size

disk_stats(d) == [hits |-> d.hits, misses |-> d.misses,
                  size_bytes |-> d.current_size,
                  entry_count |-> Cardinality(DOMAIN d.index)]

----------------------------------------------------------------------------
(* Hybrid engine: HybridCache.  A hybrid state h is a record of the memory *)
(* tier, the disk tier, the access_tracker (key -> AccessInfo) and         *)
(* last_maintenance.  Frequencies and thresholds are rationals <<n, d>>    *)
(* in accesses per second.                                                 *)

AccessInfoNew(t) == [count |-> 1, last_access |-> t, promoted_at |-> None]

update_access(info, t) == [info EXCEPT !.count = info.count + 1, !.last_access = t]

mark_promoted(info, t) == [info EXCEPT !.promoted_at = Some(t)]

(* duration_since saturates at zero *)
frequency(info) ==
    LET since == IF IsSome(info.promoted_at) THEN Unwrap(info.promoted_at)
                 ELSE info.last_access - TicksPerSec
        age == IF info.last_access > since THEN info.last_access - since ELSE 0
    IN  IF age > 0 THEN <<info.count * TicksPerSec, age>> ELSE <<info.count, 1>>

RatGE(a, b) == a[1] * b[2] >= b[1] * a[2]

should_demote_inclusive(info, t, inactivity_threshold) ==
    t - info.last_access >= inactivity_threshold

should_demote(info, t, inactivity_threshold) ==
    t - info.last_access > inactivity_threshold

track_access(tracker, key, t) ==
    IF key \in DOMAIN tracker
    THEN [tracker EXCEPT ![key] = update_access(tracker[key], t)]
    ELSE With(tracker, key, AccessInfoNew(t))

Perms(S) ==
    {p \in [1..Cardinality(S) -> S] : \A i, j \in DOMAIN p : i # j => p[i] # p[j]}

(* First loop of run_maintenance over the tracker in iteration order; acc  *)
(* carries both tiers and the collected promotions and demotions.          *)
RECURSIVE maint_analyze(_, _, _, _, _)
maint_analyze(acc, tracker, order, t, cfg) ==
    IF order = <<>> THEN acc
    ELSE
      LET key == Head(order)
          info == tracker[key]
          mg == mem_get(acc.mem, key, t, cfg.ttl)
          dg == disk_get(acc.disk, key, t, cfg.ttl)
          nxt ==
            IF RatGE(frequency(info), cfg.promotion_threshold)
            THEN IF mg.res = None
                 THEN [acc EXCEPT !.mem = mg.m, !.disk = dg.d,
                                  !.promotions = IF IsSome(dg.res)
                                                 THEN Append(@, <<key, Unwrap(dg.res)>>)
                                                 ELSE @]
                 ELSE [acc EXCEPT !.mem = mg.m]
            ELSE IF should_demote(info, t, cfg.demotion_threshold)
                 THEN [acc EXCEPT !.mem = mg.m,
                                  !.demotions = IF IsSome(mg.res)
                                                THEN Append(@, <<key, Unwrap(mg.res)>>)
                                                ELSE @]
                 ELSE acc
      IN  maint_analyze(nxt, tracker, Tail(order), t, cfg)

RECURSIVE maint_promote(_, _, _, _)
maint_promote(h, promotions, t, cfg) ==
    IF promotions = <<>> THEN h
    ELSE
      LET key == Head(promotions)[1]
          ms == mem_set(h.mem, key, Head(promotions)[2], t, cfg.memory_size)
          h1 == [h EXCEPT !.mem = ms.m,
                          !.tracker = IF ms.ok /\ key \in DOMAIN h.tracker
                                      THEN [@ EXCEPT ![key] = mark_promoted(@, t)]
                                      ELSE @]
      IN  maint_promote(h1, Tail(promotions), t, cfg)

(* The set of outcomes of the demotion loop (disk eviction breaks ties) *)
RECURSIVE maint_demote(_, _, _, _)
maint_demote(h, demotions, t, cfg) ==
    IF demotions = <<>> THEN {h}
    ELSE
      LET key == Head(demotions)[1]
      IN  UNION { maint_demote(
                     [h EXCEPT !.disk = ds.d,
                               !.mem = IF ds.ok THEN mem_remove(h.mem, key) ELSE @],
                     Tail(demotions), t, cfg)
                  : ds \in disk_set(h.disk, key, Head(demotions)[2], t, cfg.disk_size) }

(* The set of outcomes of one maintenance pass *)
run_maintenance(h, t, cfg) ==
    UNION {
      LET a == maint_analyze([mem |-> h.mem, disk |-> h.disk,
                              promotions |-> <<>>, demotions |-> <<>>],
                             h.tracker, order, t, cfg)
          hp == maint_promote([h EXCEPT !.mem = a.mem, !.disk = a.disk],
                              a.promotions, t, cfg)
      IN  { [hd EXCEPT !.tracker =
                  Without(@, {k \in DOMAIN @ :
                                should_demote(@[k], t, cfg.demotion_threshold * 2)})]
            : hd \in maint_demote(hp, a.demotions, t, cfg) }
      : order \in Perms(DOMAIN h.tracker) }

maintenance_due_always(since, t, cfg) == TRUE

(* last_maintenance.elapsed() >= self.config.maintenance_interval *)
maintenance_due(since, t, cfg) == t - since >= cfg.maintenance_interval

maybe_run_maintenance(h, t, cfg) ==
    IF maintenance_due(h.last_maintenance, t, cfg)
    THEN run_maintenance([h EXCEPT !.last_maintenance = t], t, cfg)
    ELSE {h}

(* The set of outcomes [h, res] of get *)
hybrid_get(h0, key, t, cfg) ==
    LET h == [h0 EXCEPT !.tracker = track_access(h0.tracker, key, t)]
        mg == mem_get(h.mem, key, t, cfg.ttl)
        dg == disk_get(h.disk, key, t, cfg.ttl)
    IN  IF IsSome(mg.res)
        THEN {[h |-> [h EXCEPT !.mem = mg.m], res |-> mg.res]}
        ELSE IF IsSome(dg.res)
             THEN LET should_promote ==
                          IF key \in DOMAIN h.tracker
                          THEN RatGE(frequency(h.tracker[key]), cfg.promotion_threshold)
                          ELSE FALSE
                      ms == mem_set(mg.m, key, Unwrap(dg.res), t, cfg.memory_size)
                  IN  IF should_promote
                      THEN {[h |-> [h EXCEPT !.mem = ms.m, !.disk = dg.d,
                                             !.tracker = IF ms.ok
                                                         THEN [@ EXCEPT ![key] = mark_promoted(@, t)]
                                                         ELSE @],
                             res |-> dg.res]}
                      ELSE {[h |-> [h EXCEPT !.mem = mg.m, !.disk = dg.d],
                             res |-> dg.res]}
             ELSE {[h |-> hm, res |-> None]
                     : hm \in maybe_run_maintenance(
                                  [h EXCEPT !.mem = mg.m, !.disk = dg.d], t, cfg)}

hybrid_set_memory_or_disk(h0, key, value, t, cfg) ==
    LET h == [h0 EXCEPT !.tracker = track_access(h0.tracker, key, t)]
        should_cache_in_memory ==
            RatGE(frequency(h.tracker[key]), cfg.promotion_threshold)
        ms == mem_set(h.mem, key, value, t, cfg.memory_size)
    IN  IF should_cache_in_memory /\ ms.ok
        THEN {[h |-> [h EXCEPT !.mem = ms.m], ok |-> TRUE]}
        ELSE {[h |-> [h EXCEPT !.disk = ds.d], ok |-> ds.ok]
                : ds \in disk_set(h.disk, key, value, t, cfg.disk_size)}

(* The set of outcomes [h, ok] of set *)
hybrid_set(h0, key, value, t, cfg) ==
    LET h == [h0 EXCEPT !.tracker = track_access(h0.tracker, key, t)]
        should_cache_in_memory ==
            IF key \in DOMAIN h.tracker
            THEN RatGE(frequency(h.tracker[key]), cfg.promotion_threshold)
            ELSE TRUE
    IN  { IF ~ds.ok THEN [h |-> [h EXCEPT !.disk = ds.d], ok |-> FALSE]
          ELSE IF should_cache_in_memory
               THEN [h |-> [h EXCEPT !.disk = ds.d,
                                     !.mem = mem_set(h.mem, key, value, t,
                                                     cfg.memory_size).m],
                     ok |-> TRUE]
               ELSE [h |-> [h EXCEPT !.disk = ds.d], ok |-> TRUE]
          : ds \in disk_set(h.disk, key, value, t, cfg.disk_size) }

hybrid_remove_memory_only(h, key) ==
    [h EXCEPT !.mem = mem_remove(h.mem, key),
              !.tracker = Without(h.tracker, {key})]

hybrid_remove(h, key) ==
    [h EXCEPT !.mem = mem_remove(h.mem, key),
              !.disk = disk_remove(h.disk, key),
              !.tracker = Without(h.tracker, {key})]

hybrid_clear(h) ==
    [h EXCEPT !.mem = mem_clear(h.mem), !.disk = disk_clear(h.disk),
              !.tracker = <<>>]

hybrid_size(h) == mem_size(h.mem) + disk_size(h.disk)

hybrid_stats_count_both(h) ==
    LET memory_stats == mem_stats(h.mem)
        disk_stats_ == disk_stats(h.disk)
    IN  [hits |-> memory_stats.hits + disk_stats_.hits,
         misses |-> memory_stats.misses + disk_stats_.misses,
         size_bytes |-> memory_stats.size_bytes + disk_stats_.size_bytes,
         entry_count |-> memory_stats.entry_count + disk_stats_.entry_count]

hybrid_stats(h) ==
    LET memory_stats == mem_stats(h.mem)
        disk_stats_ == disk_stats(h.disk)
    IN  [hits |-> memory_stats.hits + disk_stats_.hits,
         misses |-> memory_stats.misses + disk_stats_.misses,
         size_bytes |-> memory_stats.size_bytes + disk_stats_.size_bytes,
         entry_count |-> disk_stats_.entry_count]

(* CacheStats::hit_rate as the rational <<hits, total>>, 0 when total = 0 *)
hit_rate(stats) ==
    LET total == stats.hits + stats.misses
    IN  IF total = 0 THEN <<0, 1>> ELSE <<stats.hits, total>>

----------------------------------------------------------------------------
(* The store under test is fixed at construction: config.kind; config.ops  *)
(* is the number of operations the store is driven for, config.max_time    *)
(* the tick at which the clock stops.                                      *)

BaseConfig == [kind |-> "mem", memory_size |-> MemMax, disk_size |-> None,
               ttl |-> None, promotion_threshold |-> <<1, 10>>,
               demotion_threshold |-> 0, maintenance_interval |-> 0,
               ops |-> MemOps, max_time |-> MaxTime]

MemConfigs == {[BaseConfig EXCEPT !.ttl = t] : t \in {None, Some(TtlTicks)}}

DiskConfigs ==
    {[BaseConfig EXCEPT !.kind = "disk", !.ops = DiskOps, !.ttl = t,
                        !.disk_size = Some(DiskMax)]
        : t \in {None, Some(TtlTicks)}}
    \cup {[BaseConfig EXCEPT !.kind = "disk", !.ops = DiskOps]}

HybridConfigs ==
    {[BaseConfig EXCEPT !.kind = "hybrid", !.ops = HybridOps, !.ttl = t,
                        !.max_time = HybridMaxTime,
                        !.memory_size = HybridMemMax,
                        !.disk_size = Some(HybridDiskMax),
                        !.promotion_threshold = p,
                        !.demotion_threshold = DemotionTicks,
                        !.maintenance_interval = MaintenanceTicks]
        : t \in {None, Some(TtlTicks)}, p \in {<<1, 10>>, <<2, 1>>}}

Hybrid == [mem |-> memory_cache, disk |-> disk_cache,
           tracker |-> access_tracker, last_maintenance |-> last_maintenance]

(* History.  last: the most recent completed operation, its result, the    *)
(* case (tags) it went through and the disk entries it evicted.  written   *)
(* (kept by the hybrid engine's specification): for each key, the value    *)
(* and tick of the last set that returned Ok, forgotten when the key is    *)
(* removed or the store cleared.  offered (kept by SpecDiskConc): for each *)
(* key, the values passed to set so far.  stream (kept by SpecMemStream):  *)
(* the keys and values set so far, in order.                               *)
RecordEvicting(op, key, val, res, ok, tags, evicted) ==
    [op |-> op, key |-> key, val |-> val, res |-> res, ok |-> ok, tags |-> tags,
     evicted |-> evicted]

Record(op, key, val, res, ok, tags) ==
    RecordEvicting(op, key, val, res, ok, tags, <<>>)

Written(key, value, ok) ==
    IF ok THEN With(written, key, [val |-> value, t |-> now]) ELSE written

InitCommon ==
    /\ now = 0
    /\ memory_cache = MemNew
    /\ disk_cache = DiskNew
    /\ access_tracker = <<>>
    /\ last_maintenance = now
    /\ nops = 0
    /\ written = <<>>
    /\ offered = <<>>
    /\ stream = <<>>
    /\ access_patterns = [key_frequencies |-> <<>>, temporal_patterns |-> <<>>,
                          spatial_locality |-> [chunk_accesses |-> <<>>,
                                                recent_sequence |-> <<>>]]
    /\ last = Record("new", <<>>, <<>>, None, TRUE, {})

Init ==
    /\ InitCommon /\ tasks = <<>>
    /\ config \in MemConfigs \cup DiskConfigs \cup HybridConfigs

Tick ==
    /\ now < config.max_time
    /\ now' = now + 1
    /\ UNCHANGED <<config, memory_cache, disk_cache, access_tracker,
                   last_maintenance, nops, last, written, offered, tasks, stream, access_patterns>>

MemFrame == UNCHANGED <<now, config, disk_cache, access_tracker,
                        last_maintenance, written, offered, tasks, stream, access_patterns>>

MemGet(key) ==
    /\ config.kind = "mem" /\ nops < config.ops
    /\ LET r == mem_get(memory_cache, key, now, config.ttl)
       IN  /\ memory_cache' = r.m
           /\ last' = Record("get", key, <<>>, r.res, TRUE,
                             IF MemHas(memory_cache, key) /\ r.res = None
                             THEN {"expired"} ELSE {})
    /\ nops' = nops + 1
    /\ MemFrame

MemSet(key, value) ==
    /\ config.kind = "mem" /\ nops < config.ops
    /\ LET r == mem_set(memory_cache, key, value, now, config.memory_size)
       IN  /\ memory_cache' = r.m
           /\ last' = Record("set", key, value, None, r.ok,
                             IF MemHas(memory_cache, key) THEN {"replace"} ELSE {})
    /\ nops' = nops + 1
    /\ MemFrame

MemRemove(key) ==
    /\ config.kind = "mem" /\ nops < config.ops
    /\ memory_cache' = mem_remove(memory_cache, key)
    /\ last' = Record("remove", key, <<>>, None, TRUE, {})
    /\ nops' = nops + 1
    /\ MemFrame

MemClear ==
    /\ config.kind = "mem" /\ nops < config.ops
    /\ memory_cache' = mem_clear(memory_cache)
    /\ last' = Record("clear", <<>>, <<>>, None, TRUE,
                      IF memory_cache.cache # <<>> THEN {"nonempty"} ELSE {})
    /\ nops' = nops + 1
    /\ MemFrame

DiskFrame == UNCHANGED <<now, config, memory_cache, access_tracker,
                         last_maintenance, written, offered, tasks, stream, access_patterns>>

DiskGet(key) ==
    /\ config.kind = "disk" /\ nops < config.ops
    /\ LET r == disk_get(disk_cache, key, now, config.ttl)
       IN  /\ disk_cache' = r.d
           /\ last' = Record("get", key, <<>>, r.res, TRUE,
                             IF key \notin DOMAIN disk_cache.index THEN {}
                             ELSE IF disk_is_expired(disk_cache.index[key], now, config.ttl)
                                  THEN {"expired"}
                                  ELSE IF r.res = None THEN {"unreadable"} ELSE {})
    /\ nops' = nops + 1
    /\ DiskFrame

DiskGetReadError(key) ==
    /\ config.kind = "disk" /\ nops < config.ops
    /\ key \in DOMAIN disk_cache.index
    /\ ~disk_is_expired(disk_cache.index[key], now, config.ttl)
    /\ key_to_path(key) \in DOMAIN disk_cache.files
    /\ LET r == disk_get_read_error(disk_cache, key, now, config.ttl)
       IN  /\ disk_cache' = r.d
           /\ last' = Record("get", key, <<>>, r.res, TRUE, {"unreadable", "io_error"})
    /\ nops' = nops + 1
    /\ DiskFrame

DiskSet(key, value) ==
    /\ config.kind = "disk" /\ nops < config.ops
    /\ \E r \in disk_set(disk_cache, key, value, now, config.disk_size) :
           /\ disk_cache' = r.d
           /\ last' = RecordEvicting("set", key, value, None, r.ok,
                             IF key \in DOMAIN disk_cache.index THEN {"replace"} ELSE {},
                             [k \in {x \in DOMAIN disk_cache.index \ {key} :
                                        x \notin DOMAIN r.d.index}
                                |-> disk_cache.index[k]])
    /\ nops' = nops + 1
    /\ DiskFrame

DiskRemove(key) ==
    /\ config.kind = "disk" /\ nops < config.ops
    /\ disk_cache' = disk_remove(disk_cache, key)
    /\ last' = Record("remove", key, <<>>, None, TRUE, {})
    /\ nops' = nops + 1
    /\ DiskFrame

DiskClear ==
    /\ config.kind = "disk" /\ nops < config.ops
    /\ disk_cache' = disk_clear(disk_cache)
    /\ last' = Record("clear", <<>>, <<>>, None, TRUE,
                      IF DOMAIN disk_cache.index # {} THEN {"nonempty"} ELSE {})
    /\ nops' = nops + 1
    /\ DiskFrame

HybridInstall(h) ==
    /\ memory_cache' = h.mem
    /\ disk_cache' = h.disk
    /\ access_tracker' = h.tracker
    /\ last_maintenance' = h.last_maintenance
    /\ nops' = nops + 1
    /\ UNCHANGED <<now, config, offered, tasks, stream, access_patterns>>

HybridGet(key) ==
    /\ config.kind = "hybrid" /\ nops < config.ops
    /\ \E r \in hybrid_get(Hybrid, key, now, config) :
           /\ HybridInstall(r.h)
           /\ last' = Record("get", key, <<>>, r.res, TRUE,
                             IF r.res = None THEN {}
                             ELSE IF MemHas(r.h.mem, key) /\ ~MemHas(memory_cache, key)
                                  THEN {"promoted"} ELSE {})
           /\ UNCHANGED written

HybridSet(key, value) ==
    /\ config.kind = "hybrid" /\ nops < config.ops
    /\ \E r \in hybrid_set(Hybrid, key, value, now, config) :
           /\ HybridInstall(r.h)
           /\ last' = Record("set", key, value, None, r.ok,
                             IF key \in DOMAIN access_tracker THEN {} ELSE {"new"})
           /\ written' = Written(key, value, r.ok)

HybridRemove(key) ==
    /\ config.kind = "hybrid" /\ nops < config.ops
    /\ HybridInstall(hybrid_remove(Hybrid, key))
    /\ last' = Record("remove", key, <<>>, None, TRUE,
                      (IF MemHas(memory_cache, key) THEN {"mem"} ELSE {})
                      \cup (IF key \in DOMAIN disk_cache.index THEN {"disk"} ELSE {})
                      \cup (IF key \in DOMAIN access_tracker THEN {"tracked"} ELSE {}))
    /\ written' = Without(written, {key})

HybridClear ==
    /\ config.kind = "hybrid" /\ nops < config.ops
    /\ HybridInstall(hybrid_clear(Hybrid))
    /\ last' = Record("clear", <<>>, <<>>, None, TRUE,
                      IF memory_cache.cache # <<>> /\ DOMAIN disk_cache.index # {}
                      THEN {"nonempty"} ELSE {})
    /\ written' = <<>>

(* One specification per store, and Spec for the three of them *)
InitMem == InitCommon /\ tasks = <<>> /\ config \in MemConfigs
InitDisk == InitCommon /\ tasks = <<>> /\ config \in DiskConfigs
InitHybrid == InitCommon /\ tasks = <<>> /\ config \in HybridConfigs
InitTiers == InitCommon /\ tasks = <<>> /\ config \in MemConfigs \cup DiskConfigs

NextMem ==
    \/ Tick
    \/ \E key \in Keys : MemGet(key)
    \/ \E key \in Keys, value \in Values : MemSet(key, value)
    \/ \E key \in Keys : MemRemove(key)
    \/ MemClear

NextDisk ==
    \/ Tick
    \/ \E key \in Keys : DiskGet(key)
    \/ \E key \in Keys : DiskGetReadError(key)
    \/ \E key \in Keys, value \in Values : DiskSet(key, value)
    \/ \E key \in Keys : DiskRemove(key)
    \/ DiskClear

NextHybrid ==
    \/ Tick
    \/ \E key \in HybridKeys : HybridGet(key)
    \/ \E key \in HybridKeys, value \in HybridValues : HybridSet(key, value)
    \/ \E key \in HybridKeys : HybridRemove(key)
    \/ HybridClear

NextTiers ==
    \/ Tick
    \/ \E key \in Keys : MemGet(key)
    \/ \E key \in Keys, value \in Values : MemSet(key, value)
    \/ \E key \in Keys : MemRemove(key)
    \/ MemClear
    \/ \E key \in Keys : DiskGet(key)
    \/ \E key \in Keys : DiskGetReadError(key)
    \/ \E key \in Keys, value \in Values : DiskSet(key, value)
    \/ \E key \in Keys : DiskRemove(key)
    \/ DiskClear

Next ==
    \/ Tick
    \/ \E key \in Keys : MemGet(key)
    \/ \E key \in Keys, value \in Values : MemSet(key, value)
    \/ \E key \in Keys : MemRemove(key)
    \/ MemClear
    \/ \E key \in Keys : DiskGet(key)
    \/ \E key \in Keys : DiskGetReadError(key)
    \/ \E key \in Keys, value \in Values : DiskSet(key, value)
    \/ \E key \in Keys : DiskRemove(key)
    \/ DiskClear
    \/ \E key \in HybridKeys : HybridGet(key)
    \/ \E key \in HybridKeys, value \in HybridValues : HybridSet(key, value)
    \/ \E key \in HybridKeys : HybridRemove(key)
    \/ HybridClear

SpecMem == InitMem /\ [][NextMem]_vars
SpecDisk == InitDisk /\ [][NextDisk]_vars
SpecHybrid == InitHybrid /\ [][NextHybrid]_vars
SpecTiers == InitTiers /\ [][NextTiers]_vars
Spec == Init /\ [][Next]_vars

(* The three stores driven for at most ShortOps operations *)
InitShort ==
    /\ InitCommon /\ tasks = <<>>
    /\ config \in {[c EXCEPT !.ops = ShortOps]
                      : c \in MemConfigs \cup DiskConfigs \cup HybridConfigs}

SpecShort == InitShort /\ [][Next]_vars

----------------------------------------------------------------------------
(* A hybrid engine without TTL in which every key is set once, the keys    *)
(* have distinct file names and the values together fit the disk bound;    *)
(* gets read the keys that were set.                                       *)

OnceConfigs ==
    {[BaseConfig EXCEPT !.kind = "hybrid", !.ops = HybridOps,
                        !.max_time = HybridMaxTime,
                        !.memory_size = m,
                        !.disk_size = Some(HybridDiskMax),
                        !.promotion_threshold = p,
                        !.demotion_threshold = DemotionTicks,
                        !.maintenance_interval = MaintenanceTicks]
        : m \in 0..HybridMemMax, p \in {<<1, 10>>, <<2, 1>>}}

InitHybridOnce == InitCommon /\ tasks = <<>> /\ config \in OnceConfigs

OnceSet(key, value) ==
    /\ \A k \in DOMAIN written : key_to_path(k) # key_to_path(key)
    /\ SumSizes([k \in DOMAIN written |-> [size |-> Len(written[k].val)]])
           + Len(value) <= Unwrap(config.disk_size)
    /\ HybridSet(key, value)

OnceGet(key) ==
    /\ key \in DOMAIN written
    /\ HybridGet(key)

NextHybridOnce ==
    \/ Tick
    \/ \E key \in Keys, value \in HybridValues : OnceSet(key, value)
    \/ \E key \in Keys : OnceGet(key)

SpecHybridOnce == InitHybridOnce /\ [][NextHybridOnce]_vars

----------------------------------------------------------------------------
(* A memory tier fed a stream of distinct keys whose values have one size  *)

StreamConfigs ==
    {[BaseConfig EXCEPT !.memory_size = S, !.ttl = t]
        : S \in 1..StreamMaxCap, t \in {None, Some(TtlTicks)}}

InitMemStream == InitCommon /\ tasks = <<>> /\ config \in StreamConfigs

StreamSet(key, value) ==
    /\ config.kind = "mem"
    /\ \A i \in 1..Len(stream) : stream[i].key # key
    /\ Len(value) <= config.memory_size
    /\ stream # <<>> => Len(value) = Len(stream[1].val)
    /\ LET r == mem_set(memory_cache, key, value, now, config.memory_size)
       IN  /\ memory_cache' = r.m
           /\ last' = Record("set", key, value, None, r.ok, {})
    /\ stream' = Append(stream, [key |-> key, val |-> value])
    /\ nops' = nops + 1
    /\ UNCHANGED <<now, config, disk_cache, access_tracker, last_maintenance,
                   written, offered, tasks, access_patterns>>

NextMemStream ==
    \/ Tick
    \/ \E key \in Keys, value \in Values : StreamSet(key, value)

SpecMemStream == InitMemStream /\ [][NextMemStream]_vars

----------------------------------------------------------------------------
(* Concurrent use of one disk tier: each task runs one operation at a      *)
(* time; a step is a section under the index lock or one filesystem call   *)
(* made outside it.  tasks[t] is the position of task t in its operation.  *)

Tasks == {"t1", "t2"}
ConcKeys == {KeyAB, KeyC}
ConcValues == {V1, V12}

Idle == [pc |-> "idle", key |-> <<>>, val |-> <<>>, off |-> 0]

ConcConfigs ==
    {[BaseConfig EXCEPT !.kind = "disk", !.ops = ConcOps, !.disk_size = Some(DiskMax)]}

InitDiskConc ==
    /\ InitCommon
    /\ tasks = [t \in Tasks |-> Idle]
    /\ config \in ConcConfigs

ConcFrame == UNCHANGED <<now, config, memory_cache, access_tracker,
                         last_maintenance, stream, access_patterns>>

(* set: evict_if_needed under the index lock *)
ConcSetEvict(t, key, value) ==
    /\ tasks # <<>> /\ tasks[t].pc = "idle" /\ nops < config.ops
    /\ \E ev \in disk_evict_if_needed(disk_cache, Len(value), config.disk_size) :
         /\ disk_cache' = ev.d
         /\ IF ev.ok
            THEN /\ tasks' = [tasks EXCEPT ![t] = [pc |-> "create", key |-> key,
                                                  val |-> value, off |-> 0]]
                 /\ UNCHANGED last
            ELSE /\ last' = Record("set", key, value, None, FALSE, {})
                 /\ UNCHANGED tasks
    /\ offered' = With(offered, key,
                       (IF key \in DOMAIN offered THEN offered[key] ELSE {}) \cup {value})
    /\ nops' = nops + 1
    /\ UNCHANGED written
    /\ ConcFrame

(* set: fs::write opens and truncates the file *)
ConcSetCreate(t) ==
    /\ tasks # <<>> /\ tasks[t].pc = "create"
    /\ disk_cache' = [disk_cache EXCEPT
                        !.files = fs_create(@, key_to_path(tasks[t].key))]
    /\ tasks' = [tasks EXCEPT ![t].pc = "write"]
    /\ UNCHANGED <<nops, last, written, offered>>
    /\ ConcFrame

(* set: fs::write writes the next chunk of the value *)
ConcSetWrite(t) ==
    /\ tasks # <<>> /\ tasks[t].pc = "write"
    /\ \E n \in (tasks[t].off + 1)..Len(tasks[t].val) :
         /\ disk_cache' = [disk_cache EXCEPT
                             !.files = fs_write_at(@, key_to_path(tasks[t].key),
                                                   tasks[t].val, tasks[t].off, n)]
         /\ tasks' = [tasks EXCEPT ![t].off = n,
                                   ![t].pc = IF n = Len(tasks[t].val)
                                             THEN "index" ELSE "write"]
    /\ UNCHANGED <<nops, last, written, offered>>
    /\ ConcFrame

(* set: the index update under the index lock; set returns Ok *)
ConcSetIndex(t) ==
    /\ tasks # <<>> /\ tasks[t].pc = "index"
    /\ disk_cache' = disk_index_update(disk_cache, tasks[t].key, tasks[t].val, now)
    /\ last' = Record("set", tasks[t].key, tasks[t].val, None, TRUE, {})
    /\ tasks' = [tasks EXCEPT ![t] = Idle]
    /\ UNCHANGED <<nops, written, offered>>
    /\ ConcFrame

(* set: the future is dropped while it waits for the index lock after      *)
(* fs::write has returned; the index is not updated                        *)
ConcSetDrop(t) ==
    /\ tasks # <<>> /\ tasks[t].pc = "index"
    /\ last' = Record("drop", tasks[t].key, tasks[t].val, None, FALSE, {})
    /\ tasks' = [tasks EXCEPT ![t] = Idle]
    /\ UNCHANGED <<disk_cache, nops, written, offered>>
    /\ ConcFrame

(* get: cleanup_expired under the index lock *)
ConcGetCleanup(t, key) ==
    /\ tasks # <<>> /\ tasks[t].pc = "idle" /\ nops < config.ops
    /\ disk_cache' = disk_cleanup_expired(disk_cache, now, config.ttl)
    /\ tasks' = [tasks EXCEPT ![t] = [pc |-> "lookup", key |-> key,
                                      val |-> <<>>, off |-> 0]]
    /\ nops' = nops + 1
    /\ UNCHANGED <<last, written, offered>>
    /\ ConcFrame

(* get: the lookup and the read under the index lock; get returns *)
ConcGetLookup(t) ==
    /\ tasks # <<>> /\ tasks[t].pc = "lookup"
    /\ LET r == disk_lookup(disk_cache, tasks[t].key, now, config.ttl)
       IN  /\ disk_cache' = r.d
           /\ last' = Record("get", tasks[t].key, <<>>, r.res, TRUE,
                             IF \E o \in Tasks : /\ tasks[o].pc \in {"write", "index"}
                                                 /\ tasks[o].key = tasks[t].key
                             THEN {"during_set"} ELSE {})
    /\ tasks' = [tasks EXCEPT ![t] = Idle]
    /\ UNCHANGED <<nops, written, offered>>
    /\ ConcFrame

(* remove runs under the index lock *)
ConcRemove(t, key) ==
    /\ tasks # <<>> /\ tasks[t].pc = "idle" /\ nops < config.ops
    /\ disk_cache' = disk_remove(disk_cache, key)
    /\ last' = Record("remove", key, <<>>, None, TRUE, {})
    /\ nops' = nops + 1
    /\ UNCHANGED <<tasks, written, offered>>
    /\ ConcFrame

NextDiskConc ==
    \/ Tick
    \/ \E t \in Tasks, key \in ConcKeys, value \in ConcValues : ConcSetEvict(t, key, value)
    \/ \E t \in Tasks : ConcSetCreate(t)
    \/ \E t \in Tasks : ConcSetWrite(t)
    \/ \E t \in Tasks : ConcSetIndex(t)
    \/ \E t \in Tasks : ConcSetDrop(t)
    \/ \E t \in Tasks, key \in ConcKeys : ConcGetCleanup(t, key)
    \/ \E t \in Tasks : ConcGetLookup(t)
    \/ \E t \in Tasks, key \in ConcKeys : ConcRemove(t, key)

SpecDiskConc == InitDiskConc /\ [][NextDiskConc]_vars

----------------------------------------------------------------------------
(* Concurrent use of one memory tier with its RwLock made explicit.  An    *)
(* operation is a sequence of sections, each run under the write lock of   *)
(* inner; stats() takes the read lock through block_on.  A task that       *)
(* holds the lock has pc "locked", a task waiting for it has pc "queued",  *)
(* a caller of stats() waiting for the read lock has pc "stats_wait".  The *)
(* lock is fair: a reader waits while a writer holds or is queued for it.  *)

LockIdle == [pc |-> "idle", op |-> "", key |-> <<>>, val |-> <<>>, todo |-> <<>>]

LockConfigs == {[BaseConfig EXCEPT !.ops = ConcOps]}

InitMemLock ==
    /\ InitCommon
    /\ tasks = [t \in Tasks |-> LockIdle]
    /\ config \in LockConfigs

LockFrame == UNCHANGED <<now, config, disk_cache, access_tracker,
                         last_maintenance, written, offered, stream, access_patterns>>

WriteLockBusy(t) == \E o \in Tasks \ {t} : tasks[o].pc \in {"locked", "queued"}

Sections(op) ==
    IF op = "set" THEN <<"evict", "put">>
    ELSE IF op = "get" THEN <<"cleanup", "lookup">>
    ELSE <<op>>

(* a task starts get, set, remove or clear: it is about to ask for the lock *)
LockStart(t, op, key, value) ==
    /\ tasks # <<>> /\ tasks[t].pc = "idle" /\ nops < config.ops
    /\ tasks' = [tasks EXCEPT ![t] = [pc |-> "want", op |-> op, key |-> key,
                                      val |-> value, todo |-> Sections(op)]]
    /\ nops' = nops + 1
    /\ UNCHANGED <<memory_cache, last>>
    /\ LockFrame

(* inner.write().await: granted at once or queued *)
LockAcquire(t) ==
    /\ tasks # <<>> /\ tasks[t].pc = "want"
    /\ tasks' = [tasks EXCEPT ![t].pc = IF WriteLockBusy(t) THEN "queued" ELSE "locked"]
    /\ UNCHANGED <<memory_cache, nops, last>>
    /\ LockFrame

(* the section under the lock, then the guard is dropped and the lock is   *)
(* handed to the queued task                                               *)
LockRun(t) ==
    /\ tasks # <<>> /\ tasks[t].pc = "locked"
    /\ LET me == tasks[t]
           sec == Head(me.todo)
           ev == mem_evict_if_needed(memory_cache, Len(me.val), config.memory_size)
           mg == mem_get(memory_cache, me.key, now, config.ttl)
           m1 == IF sec = "evict" THEN ev.m
                 ELSE IF sec = "put" THEN mem_put(memory_cache, me.key, me.val, now)
                 ELSE IF sec = "cleanup" THEN mem_cleanup_expired(memory_cache, now, config.ttl)
                 ELSE IF sec = "lookup" THEN mg.m
                 ELSE IF sec = "remove" THEN mem_remove(memory_cache, me.key)
                 ELSE mem_clear(memory_cache)
           failed == sec = "evict" /\ ~ev.ok
           done == failed \/ Len(me.todo) = 1
           handed == [o \in Tasks |-> IF tasks[o].pc = "queued"
                                      THEN [tasks[o] EXCEPT !.pc = "locked"]
                                      ELSE tasks[o]]
       IN  /\ memory_cache' = m1
           /\ tasks' = [handed EXCEPT ![t] = IF done THEN LockIdle
                                             ELSE [me EXCEPT !.pc = "want",
                                                             !.todo = Tail(me.todo)]]
           /\ last' = IF done
                      THEN Record(me.op, me.key, me.val,
                                  IF sec = "lookup" THEN mg.res ELSE None, ~failed, {})
                      ELSE last
    /\ UNCHANGED nops
    /\ LockFrame

(* stats(): block_on(inner.read()) returns at once or parks the thread *)
LockStats(t) ==
    /\ tasks # <<>> /\ tasks[t].pc = "idle" /\ nops < config.ops
    /\ IF WriteLockBusy(t)
       THEN /\ tasks' = [tasks EXCEPT ![t].pc = "stats_wait", ![t].op = "stats"]
            /\ UNCHANGED last
       ELSE /\ last' = Record("stats", <<>>, <<>>, Some(mem_stats(memory_cache)), TRUE, {})
            /\ UNCHANGED tasks
    /\ nops' = nops + 1
    /\ UNCHANGED memory_cache
    /\ LockFrame

(* the parked stats() gets the read lock once no writer holds or waits *)
LockStatsResume(t) ==
    /\ tasks # <<>> /\ tasks[t].pc = "stats_wait"
    /\ ~WriteLockBusy(t)
    /\ tasks' = [tasks EXCEPT ![t] = LockIdle]
    /\ last' = Record("stats", <<>>, <<>>, Some(mem_stats(memory_cache)), TRUE, {"waited"})
    /\ UNCHANGED <<memory_cache, nops>>
    /\ LockFrame

NextMemLock ==
    \/ \E t \in Tasks, op \in {"get", "remove"}, key \in ConcKeys :
          LockStart(t, op, key, <<>>)
    \/ \E t \in Tasks, key \in ConcKeys, value \in ConcValues :
          LockStart(t, "set", key, value)
    \/ \E t \in Tasks : LockStart(t, "clear", <<>>, <<>>)
    \/ \E t \in Tasks : LockAcquire(t)
    \/ \E t \in Tasks : LockRun(t)
    \/ \E t \in Tasks : LockStats(t)
    \/ \E t \in Tasks : LockStatsResume(t)

SpecMemLock == InitMemLock /\ [][NextMemLock]_vars


----------------------------------------------------------------------------
(* Key codec (src/prefetch.rs).  A string is a sequence of characters;     *)
(* Ascii lists the characters in use in byte order.                        *)

Ascii == <<"+", "-", ".", "/", "0", "1", "2", "3", "4", "5", "6", "7", "8",
           "9", "_", "a", "b", "c", "e", "h", "k", "m", "n", "p", "r", "t", "u">>
Digits == <<"0", "1", "2", "3", "4", "5", "6", "7", "8", "9">>
I32Max == 2147483647
I32Min == -I32Max - 1

(* str::split(sep): the pieces between the separators, at least one piece *)
RECURSIVE split(_, _)
split(str, sep) ==
    IF \A i \in 1..Len(str) : str[i] # sep THEN <<str>>
    ELSE LET i == CHOOSE j \in 1..Len(str) :
                      str[j] = sep /\ \A k \in 1..(j - 1) : str[k] # sep
         IN  <<SubSeq(str, 1, i - 1)>> \o split(SubSeq(str, i + 1, Len(str)), sep)

(* the number written by a string of decimal digits *)
RECURSIVE digits_value(_)
digits_value(str) ==
    IF str = <<>> THEN 0
    ELSE 10 * digits_value(SubSeq(str, 1, Len(str) - 1))
         + (CHOOSE d \in 0..9 : Digits[d + 1] = str[Len(str)])

(* str::parse::<i32>(): an optional sign, then one or more decimal digits, *)
(* the value within the range of i32; anything else is an error (None)     *)
parse_i32(str) ==
    LET signed == str # <<>> /\ str[1] \in {"+", "-"}
        body == IF signed THEN Tail(str) ELSE str
        v == IF signed /\ str[1] = "-" THEN -digits_value(body)
             ELSE digits_value(body)
    IN  IF /\ body # <<>>
           /\ \A i \in 1..Len(body) : \E d \in 1..10 : Digits[d] = body[i]
           /\ Len(body) <= 10
           /\ v >= I32Min /\ v <= I32Max
        THEN Some(v) ELSE None

(* i32::to_string(): decimal digits, "-" in front of a negative number *)
RECURSIVE to_string(_)
to_string(n) ==
    IF n < 0 THEN <<"-">> \o to_string(-n)
    ELSE IF n < 10 THEN <<Digits[n + 1]>>
    ELSE to_string(n \div 10) \o <<Digits[(n % 10) + 1]>>

(* [String]::join(sep) *)
RECURSIVE join(_, _)
join(strs, sep) ==
    IF strs = <<>> THEN <<>>
    ELSE IF Len(strs) = 1 THEN strs[1]
    ELSE strs[1] \o <<sep>> \o join(Tail(strs), sep)

RECURSIVE Flatten(_)
Flatten(seqs) == IF seqs = <<>> THEN <<>> ELSE seqs[1] \o Flatten(Tail(seqs))

(* "array_name/x.y.z" -> Some([array_name, coords]), None for other keys *)
parse_zarr_chunk_key(key) ==
    LET parts == split(key, "/")
    IN  IF Len(parts) # 2 THEN None
        ELSE LET coords == [i \in 1..Len(split(parts[2], ".")) |->
                               parse_i32(split(parts[2], ".")[i])]
             IN  IF \E i \in 1..Len(coords) : coords[i] = None THEN None
                 ELSE Some([array_name |-> parts[1],
                            coords |-> [i \in 1..Len(coords) |-> Unwrap(coords[i])]])

(* the neighbours of coords at one dimension and one offset: the positive  *)
(* one first, each kept when the moved component is not negative           *)
neighbors_at(coords, dim, offset) ==
    (IF coords[dim] + offset >= 0
        THEN <<[coords EXCEPT ![dim] = @ + offset]>> ELSE <<>>)
    \o (IF coords[dim] - offset >= 0
           THEN <<[coords EXCEPT ![dim] = @ - offset]>> ELSE <<>>)

generate_neighbor_coordinates(coords, neighbor_count) ==
    Flatten([i \in 1..(Len(coords) * neighbor_count) |->
                neighbors_at(coords, ((i - 1) \div neighbor_count) + 1,
                                     ((i - 1) % neighbor_count) + 1)])

coordinates_to_zarr_key_slash(array_name, coords) ==
    array_name \o <<"/">> \o
    join([i \in 1..Len(coords) |-> to_string(coords[i])], "/")

coordinates_to_zarr_key(array_name, coords) ==
    array_name \o <<"/">> \o
    join([i \in 1..Len(coords) |-> to_string(coords[i])], ".")

generate_sequential_keys_cumulative(array_name, coords, lookahead) ==
    IF coords = <<>> THEN <<>>
    ELSE [i \in 1..lookahead |->
             coordinates_to_zarr_key(array_name,
                 [coords EXCEPT ![Len(coords)] = @ + (i * (i + 1)) \div 2])]

generate_sequential_keys(array_name, coords, lookahead) ==
    IF coords = <<>> THEN <<>>
    ELSE [i \in 1..lookahead |->
             coordinates_to_zarr_key(array_name,
                 [coords EXCEPT ![Len(coords)] = @ + i])]

(* NeighborChunkPrefetch::generate_prefetch_keys *)
neighbor_prefetch_keys(accessed_key, neighbor_count) ==
    LET p == parse_zarr_chunk_key(accessed_key)
    IN  IF p = None THEN <<>>
        ELSE LET ns == generate_neighbor_coordinates(Unwrap(p).coords, neighbor_count)
             IN  [i \in 1..Len(ns) |->
                     coordinates_to_zarr_key(Unwrap(p).array_name, ns[i])]

(* SequentialPrefetch::generate_prefetch_keys *)
sequential_prefetch_keys(accessed_key, lookahead) ==
    LET p == parse_zarr_chunk_key(accessed_key)
    IN  IF p = None THEN <<>>
        ELSE generate_sequential_keys(Unwrap(p).array_name, Unwrap(p).coords,
                                      lookahead)

(* Inputs of the codec: coordinate vectors of up to MaxDim components in   *)
(* -CoordNeg..CoordMax, two array names, and keys that are not chunk keys  *)
RECURSIVE Vectors(_)
Vectors(n) ==
    IF n = 0 THEN {<<>>}
    ELSE {Append(v, x) : v \in Vectors(n - 1), x \in (-CoordNeg)..CoordMax}

CoordVectors == UNION {Vectors(n) : n \in 0..MaxDim}
ArrayNames == {<<>>, <<"a">>}
Temperature == <<"t", "e", "m", "p", "e", "r", "a", "t", "u", "r", "e">>
TemperatureChunk(x, y, z) ==
    Temperature \o <<"/", "c", "h", "u", "n", "k", "_">> \o to_string(x)
    \o <<".">> \o to_string(y) \o <<".">> \o to_string(z)
KeyChunk222 == TemperatureChunk(2, 2, 2)
NotChunkKeys == {KeyA_B, KeyAB, <<"a", "/">>, <<"a", "/", "1", "/", "2">>,
                 <<"a", "/", "1", ".", ".", "2">>, <<"a", "/", "-">>, KeyChunk222}
CodecKeys == {coordinates_to_zarr_key(a, c) : a \in ArrayNames,
                                              c \in CoordVectors \ {<<>>}}
             \cup {<<"a", "/", "+", "1">>, <<"a", "/", "0", "1", ".", "9">>}
             \cup NotChunkKeys

CodecFrame == UNCHANGED <<now, config, memory_cache, disk_cache, access_tracker,
                          last_maintenance, written, offered, tasks, stream, access_patterns>>

InitCodec ==
    /\ InitCommon /\ tasks = <<>>
    /\ config = [BaseConfig EXCEPT !.kind = "codec", !.ops = 1]

(* parse_zarr_chunk_key on its own *)
CodecParse(key) ==
    /\ config.kind = "codec" /\ nops < config.ops
    /\ last' = [op |-> "parse", key |-> key, res |-> parse_zarr_chunk_key(key)]
    /\ nops' = nops + 1
    /\ CodecFrame

(* a key is parsed and the neighbours of its coordinates generated *)
CodecNeighbors(key, neighbor_count) ==
    /\ config.kind = "codec" /\ nops < config.ops
    /\ parse_zarr_chunk_key(key) # None
    /\ LET coords == Unwrap(parse_zarr_chunk_key(key)).coords
       IN  last' = [op |-> "neighbors", key |-> key, coords |-> coords,
                    neighbor_count |-> neighbor_count,
                    res |-> generate_neighbor_coordinates(coords, neighbor_count),
                    keys |-> neighbor_prefetch_keys(key, neighbor_count)]
    /\ nops' = nops + 1
    /\ CodecFrame

CodecSequential(array_name, coords, lookahead) ==
    /\ config.kind = "codec" /\ nops < config.ops
    /\ last' = [op |-> "sequential", array_name |-> array_name,
                coords |-> coords, lookahead |-> lookahead,
                res |-> generate_sequential_keys(array_name, coords, lookahead)]
    /\ nops' = nops + 1
    /\ CodecFrame

NextCodec ==
    \/ \E key \in CodecKeys : CodecParse(key)
    \/ \E key \in CodecKeys, d \in 0..MaxDistance : CodecNeighbors(key, d)
    \/ \E a \in ArrayNames, c \in CoordVectors, L \in 0..MaxLookahead :
          CodecSequential(a, c, L)

SpecCodec == InitCodec /\ [][NextCodec]_vars


----------------------------------------------------------------------------
(* Cache warming (src/warming.rs): a CacheWarmer over a memory tier.  The  *)
(* strategies (with the access history of a predictive one) and the loader *)
(* are fixed when the warmer is built: config.strategies, config.loader.   *)
(* A context is reduced to recent_access, the one field the strategies     *)
(* read.                                                                   *)

(* String's order: byte-wise lexicographic *)
CharCode(c) == CHOOSE i \in 1..Len(Ascii) : Ascii[i] = c

RECURSIVE StrLess(_, _)
StrLess(a, b) ==
    IF a = <<>> THEN b # <<>>
    ELSE IF b = <<>> THEN FALSE
    ELSE IF a[1] = b[1] THEN StrLess(Tail(a), Tail(b))
    ELSE CharCode(a[1]) < CharCode(b[1])

(* Vec::sort then Vec::dedup: the distinct elements in ascending order *)
RECURSIVE sort_dedup(_)
sort_dedup(S) ==
    IF S = {} THEN <<>>
    ELSE LET least == CHOOSE x \in S : \A y \in S \ {x} : StrLess(x, y)
         IN  <<least>> \o sort_dedup(S \ {least})

truncate(seq, n) == IF Len(seq) > n THEN SubSeq(seq, 1, n) ELSE seq

Range(seq) == {seq[i] : i \in 1..Len(seq)}

NeighborWarmingNew(neighbor_distance, max_warm_keys) ==
    [type |-> "neighbor", neighbor_distance |-> neighbor_distance,
     max_warm_keys |-> max_warm_keys]

PredictiveWarmingNew(access_history, max_warm_keys, min_frequency) ==
    [type |-> "predictive", access_history |-> access_history,
     max_warm_keys |-> max_warm_keys, min_frequency |-> min_frequency]

(* NeighborWarming::generate_neighbors *)
generate_neighbors(self, key) ==
    LET parts == split(key, "/")
    IN  IF Len(parts) # 2 THEN <<>>
        ELSE LET strs == split(parts[2], ".")
                 parsed == [i \in 1..Len(strs) |-> parse_i32(strs[i])]
             IN  IF \E i \in 1..Len(parsed) : parsed[i] = None THEN <<>>
                 ELSE LET coords == [i \in 1..Len(parsed) |-> Unwrap(parsed[i])]
                          d == self.neighbor_distance
                          ns == Flatten([i \in 1..(Len(coords) * d) |->
                                   neighbors_at(coords, ((i - 1) \div d) + 1,
                                                        ((i - 1) % d) + 1)])
                      IN  truncate([i \in 1..Len(ns) |->
                                       parts[1] \o <<"/">> \o
                                       join([k \in 1..Len(ns[i]) |->
                                                to_string(ns[i][k])], ".")],
                                   self.max_warm_keys)

(* NeighborWarming::generate_warming_keys: whatever the order in which the *)
(* map is iterated, the sorted distinct neighbours, truncated              *)
neighbor_generate_warming_keys(self, context) ==
    truncate(sort_dedup(UNION {Range(generate_neighbors(self, key))
                                  : key \in DOMAIN context.recent_access}),
             self.max_warm_keys)

(* PredictiveWarming::predict_next_keys: the keys frequent enough in the   *)
(* history, in an order of the map's iteration stably sorted by descending *)
(* recent count, truncated: the set of possible results                    *)
recent_count(context, key) ==
    IF key \in DOMAIN context.recent_access THEN context.recent_access[key] ELSE 0

predict_next_keys(self, context) ==
    LET h == self.access_history
        frequent == {key \in DOMAIN h :
                        /\ Len(h[key]) >= 2
                        /\ h[key][Len(h[key])] - h[key][1] # 0
                        /\ RatGE(<<Len(h[key]), h[key][Len(h[key])] - h[key][1]>>,
                                 self.min_frequency)}
    IN  {truncate(p, self.max_warm_keys) :
            p \in {q \in Perms(frequent) :
                      \A i, j \in DOMAIN q :
                          i < j => recent_count(context, q[i])
                                      >= recent_count(context, q[j])}}

(* WarmingStrategy::generate_warming_keys: the set of possible results *)
generate_warming_keys(strategy, context) ==
    IF strategy.type = "neighbor"
    THEN {neighbor_generate_warming_keys(strategy, context)}
    ELSE predict_next_keys(strategy, context)

(* the loader: a value for some keys, None for the others *)
load(loader, key) == IF key \in DOMAIN loader THEN loader[key] ELSE None

(* warm_cache of either strategy over keys[i..]; acc carries the cache,    *)
(* the count, the steps taken (one per key looked at) and ok, false once a *)
(* cache.set has failed (the ? returns the error at once)                  *)
RECURSIVE warm_cache_count_absent(_, _, _, _, _, _)
warm_cache_count_absent(acc, keys, loader, t, cfg, strategy) ==
    IF keys = <<>> \/ ~acc.ok THEN acc
    ELSE LET key == Head(keys)
             g == mem_get(acc.m, key, t, cfg.ttl)
             step == [strategy |-> strategy, key |-> key,
                      present |-> IsSome(g.res), loaded |-> None, stored |-> FALSE]
         IN  IF IsSome(g.res)
             THEN warm_cache_count_absent(
                      [acc EXCEPT !.m = g.m, !.steps = Append(@, step)],
                      Tail(keys), loader, t, cfg, strategy)
             ELSE LET data == load(loader, key)
                  IN  IF data = None
                      THEN warm_cache_count_absent(
                               [acc EXCEPT !.m = g.m, !.warmed = @ + 1,
                                   !.steps = Append(@, [step EXCEPT !.loaded = Some(None)])],
                               Tail(keys), loader, t, cfg, strategy)
                      ELSE LET r == mem_set(g.m, key, Unwrap(data), t, cfg.memory_size)
                           IN  warm_cache_count_absent(
                                   [acc EXCEPT !.m = r.m, !.ok = r.ok,
                                       !.warmed = IF r.ok THEN @ + 1 ELSE @,
                                       !.steps = Append(@, [step EXCEPT
                                                     !.loaded = Some(data),
                                                     !.stored = r.ok])],
                                   Tail(keys), loader, t, cfg, strategy)

RECURSIVE warm_cache(_, _, _, _, _, _)
warm_cache(acc, keys, loader, t, cfg, strategy) ==
    IF keys = <<>> \/ ~acc.ok THEN acc
    ELSE LET key == Head(keys)
             g == mem_get(acc.m, key, t, cfg.ttl)
             step == [strategy |-> strategy, key |-> key,
                      present |-> IsSome(g.res), loaded |-> None, stored |-> FALSE]
         IN  IF IsSome(g.res)
             THEN warm_cache([acc EXCEPT !.m = g.m, !.steps = Append(@, step)],
                             Tail(keys), loader, t, cfg, strategy)
             ELSE LET data == load(loader, key)
                  IN  IF data = None
                      THEN warm_cache(
                               [acc EXCEPT !.m = g.m,
                                   !.steps = Append(@, [step EXCEPT !.loaded = Some(None)])],
                               Tail(keys), loader, t, cfg, strategy)
                      ELSE LET r == mem_set(g.m, key, Unwrap(data), t, cfg.memory_size)
                           IN  warm_cache(
                                   [acc EXCEPT !.m = r.m, !.ok = r.ok,
                                       !.warmed = IF r.ok THEN @ + 1 ELSE @,
                                       !.steps = Append(@, [step EXCEPT
                                                     !.loaded = Some(data),
                                                     !.stored = r.ok])],
                                   Tail(keys), loader, t, cfg, strategy)

(* CacheWarmer::build_warming_context *)
build_warming_context(tracker) == [recent_access |-> tracker]

(* CacheWarmer::warm from strategy i on: the set of possible outcomes *)
RECURSIVE warm_from(_, _, _, _, _)
warm_from(acc, i, context, t, cfg) ==
    IF i > Len(cfg.strategies) \/ ~acc.ok THEN {acc}
    ELSE UNION {warm_from(warm_cache(acc, keys, cfg.loader, t, cfg, i),
                          i + 1, context, t, cfg)
                   : keys \in generate_warming_keys(cfg.strategies[i], context)}

warm(m, tracker, t, cfg) ==
    warm_from([m |-> m, warmed |-> 0, steps |-> <<>>, ok |-> TRUE], 1,
              build_warming_context(tracker), t, cfg)

(* CacheWarmer::record_access *)
record_access(tracker, key) ==
    IF key \in DOMAIN tracker THEN [tracker EXCEPT ![key] = @ + 1]
    ELSE With(tracker, key, 1)

Chunk1(x) == <<"a", "/">> \o to_string(x)
WarmKeys == {Chunk1(0), Chunk1(1), KeyChunk222}
LoadKeys == {Chunk1(0), Chunk1(1), Chunk1(2)}
Loaders == [LoadKeys -> {None, Some(V1)}] \cup {[k \in LoadKeys |-> Some(V12)]}
Histories == {<<>>, With(<<>>, Chunk1(1), <<0, 1>>),
              With(With(<<>>, Chunk1(1), <<0, 1>>), Chunk1(0), <<0, 1, 2>>)}
Strategies == {NeighborWarmingNew(1, 8), NeighborWarmingNew(1, 1)}
              \cup {PredictiveWarmingNew(h, 5, <<1, 10>>) : h \in Histories}
StrategyLists == {<<a>> : a \in Strategies}
                 \cup {<<a, b>> : a \in Strategies, b \in Strategies}

WarmConfigs ==
    {[kind |-> "warm", ops |-> WarmOps, ttl |-> None, memory_size |-> S,
      strategies |-> sl, loader |-> ld]
        : S \in 1..WarmMemMax, sl \in StrategyLists, ld \in Loaders}

InitWarm == InitCommon /\ tasks = <<>> /\ config \in WarmConfigs

WarmFrame == UNCHANGED <<now, config, disk_cache, last_maintenance, written,
                         offered, tasks, stream, access_patterns>>

WarmRecordAccess(key) ==
    /\ config.kind = "warm" /\ nops < config.ops
    /\ access_tracker' = record_access(access_tracker, key)
    /\ last' = [op |-> "record_access", key |-> key]
    /\ nops' = nops + 1
    /\ UNCHANGED memory_cache
    /\ WarmFrame

(* strategy.generate_warming_keys on a context holding the tracker's map *)
WarmGenerate(i) ==
    /\ config.kind = "warm" /\ nops < config.ops
    /\ i \in 1..Len(config.strategies)
    /\ \E keys \in generate_warming_keys(config.strategies[i],
                                         build_warming_context(access_tracker)) :
          last' = [op |-> "generate_warming_keys", strategy |-> config.strategies[i],
                   recent_access |-> access_tracker, res |-> keys]
    /\ nops' = nops + 1
    /\ UNCHANGED <<memory_cache, access_tracker>>
    /\ WarmFrame

Warm ==
    /\ config.kind = "warm" /\ nops < config.ops
    /\ \E r \in warm(memory_cache, access_tracker, now, config) :
          /\ memory_cache' = r.m
          /\ last' = [op |-> "warm", ok |-> r.ok, res |-> r.warmed,
                      steps |-> r.steps]
    /\ nops' = nops + 1
    /\ UNCHANGED access_tracker
    /\ WarmFrame

NextWarm ==
    \/ \E key \in WarmKeys : WarmRecordAccess(key)
    \/ \E i \in 1..2 : WarmGenerate(i)
    \/ Warm

SpecWarm == InitWarm /\ [][NextWarm]_vars


----------------------------------------------------------------------------
(* Analytics collector (src/metrics.rs): the access pattern analyser and   *)
(* its spatial locality tracker.  A score is a ratio <<events, total>>.    *)

MaxAccessIntervals == 100
MaxTemporalPatterns == 10000
MaxRecentSequence == 1000

AccessPatternAnalyzerNew ==
    [key_frequencies |-> <<>>, temporal_patterns |-> <<>>,
     spatial_locality |-> [chunk_accesses |-> <<>>, recent_sequence |-> <<>>]]

(* str::strip_prefix *)
strip_prefix(str, prefix) ==
    IF Len(str) >= Len(prefix) /\ SubSeq(str, 1, Len(prefix)) = prefix
    THEN Some(SubSeq(str, Len(prefix) + 1, Len(str))) ELSE None

(* "array/chunk_x.y.z" -> Some(ChunkCoordinate), None for other keys *)
parse_chunk_coordinate(key) ==
    LET parts == split(key, "/")
    IN  IF Len(parts) # 2 THEN None
        ELSE LET chunk_part == strip_prefix(parts[2], <<"c", "h", "u", "n", "k", "_">>)
             IN  IF chunk_part = None THEN None
                 ELSE LET strs == split(Unwrap(chunk_part), ".")
                          parsed == [i \in 1..Len(strs) |-> parse_i32(strs[i])]
                      IN  IF \E i \in 1..Len(parsed) : parsed[i] = None THEN None
                          ELSE Some([array_name |-> parts[1],
                                     coordinates |-> [i \in 1..Len(parsed) |->
                                                         Unwrap(parsed[i])]])

record_chunk_access(self, key) ==
    LET coord == parse_chunk_coordinate(key)
    IN  IF coord = None THEN self
        ELSE LET c == Unwrap(coord)
                 pushed == Append(self.recent_sequence, c)
             IN  [chunk_accesses |->
                     With(self.chunk_accesses, c,
                          IF c \in DOMAIN self.chunk_accesses
                          THEN self.chunk_accesses[c] + 1 ELSE 1),
                  recent_sequence |->
                     IF Len(pushed) > MaxRecentSequence THEN Tail(pushed) ELSE pushed]

Abs(x) == IF x < 0 THEN -x ELSE x

(* zip stops at the shorter vector; the lengths are equal where it is used *)
are_neighbors_any_step(a, b) ==
    IF a.array_name # b.array_name \/ Len(a.coordinates) # Len(b.coordinates)
    THEN FALSE
    ELSE Cardinality({i \in 1..Len(a.coordinates) :
                         a.coordinates[i] # b.coordinates[i]}) = 1

are_neighbors(a, b) ==
    IF a.array_name # b.array_name \/ Len(a.coordinates) # Len(b.coordinates)
    THEN FALSE
    ELSE /\ \A i \in 1..Len(a.coordinates) :
               Abs(a.coordinates[i] - b.coordinates[i]) <= 1
         /\ Cardinality({i \in 1..Len(a.coordinates) :
                            Abs(a.coordinates[i] - b.coordinates[i]) = 1}) = 1

calculate_locality_score(self) ==
    IF Len(self.recent_sequence) < 2 THEN <<0, 1>>
    ELSE LET total_transitions == Len(self.recent_sequence) - 1
             locality_events ==
                Cardinality({i \in 1..total_transitions :
                    are_neighbors(self.recent_sequence[i],
                                  self.recent_sequence[i + 1])})
         IN  IF total_transitions > 0 THEN <<locality_events, total_transitions>>
             ELSE <<0, 1>>

(* AccessPatternAnalyzer::record_access *)
analyzer_record_access(self, key, was_hit, response_time, t) ==
    LET known == key \in DOMAIN self.key_frequencies
        info0 == IF known THEN self.key_frequencies[key]
                 ELSE [total_accesses |-> 0, last_access |-> t,
                       access_intervals |-> <<>>, cache_hits |-> 0,
                       cache_misses |-> 0]
        pushed == Append(info0.access_intervals, t - info0.last_access)
        intervals == IF info0.total_accesses > 0
                     THEN (IF Len(pushed) > MaxAccessIntervals THEN Tail(pushed)
                           ELSE pushed)
                     ELSE info0.access_intervals
        info == [total_accesses |-> info0.total_accesses + 1, last_access |-> t,
                 access_intervals |-> intervals,
                 cache_hits |-> info0.cache_hits + (IF was_hit THEN 1 ELSE 0),
                 cache_misses |-> info0.cache_misses + (IF was_hit THEN 0 ELSE 1)]
        temporal == Append(self.temporal_patterns,
                           [timestamp |-> t, key |-> key, was_hit |-> was_hit,
                            response_time |-> response_time])
    IN  [key_frequencies |-> With(self.key_frequencies, key, info),
         temporal_patterns |-> IF Len(temporal) > MaxTemporalPatterns
                               THEN Tail(temporal) ELSE temporal,
         spatial_locality |-> record_chunk_access(self.spatial_locality, key)]

(* MetricsCollector::record_operation *)
record_operation(self, key, was_hit, response_time, t, cfg) ==
    IF cfg.track_access_patterns
    THEN analyzer_record_access(self, key, was_hit, response_time, t)
    ELSE self

(* the spatial_locality_score of AccessPatternAnalyzer::analyze_patterns,  *)
(* which generate_report puts in the report                                *)
spatial_locality_score(self) == calculate_locality_score(self.spatial_locality)

AChunk(c) == <<"a", "/", "c", "h", "u", "n", "k", "_">> \o
             join([i \in 1..Len(c) |-> to_string(c[i])], ".")
MetricsKeys == {AChunk(<<0, 0>>), AChunk(<<0, 1>>), AChunk(<<1, 1>>),
                AChunk(<<0, 2>>), AChunk(<<0, -1>>), AChunk(<<1>>),
                <<"b">> \o Tail(AChunk(<<0, 1>>)), Chunk1(1), KeyC}

MetricsConfigs ==
    {[kind |-> "metrics", ops |-> MetricsOps, track_access_patterns |-> b]
        : b \in BOOLEAN}

InitMetrics == InitCommon /\ tasks = <<>> /\ config \in MetricsConfigs

MetricsFrame == UNCHANGED <<now, config, memory_cache, disk_cache, access_tracker,
                            last_maintenance, written, offered, tasks>>

(* stream keeps the chunk coordinates of the keys recorded so far *)
MetricsRecordOperation(key, was_hit) ==
    /\ config.kind = "metrics" /\ nops < config.ops
    /\ access_patterns' = record_operation(access_patterns, key, was_hit, 2, now, config)
    /\ stream' = IF config.track_access_patterns /\ parse_chunk_coordinate(key) # None
                 THEN Append(stream, key) ELSE stream
    /\ last' = [op |-> "record_operation", key |-> key, was_hit |-> was_hit]
    /\ nops' = nops + 1
    /\ MetricsFrame

(* generate_report leaves the collector as it is *)
MetricsGenerateReport ==
    /\ config.kind = "metrics" /\ nops < config.ops
    /\ last' = [op |-> "generate_report",
                spatial_locality_score |-> spatial_locality_score(access_patterns)]
    /\ nops' = nops + 1
    /\ UNCHANGED <<access_patterns, stream>>
    /\ MetricsFrame

NextMetrics ==
    \/ \E key \in MetricsKeys, was_hit \in BOOLEAN : MetricsRecordOperation(key, was_hit)
    \/ MetricsGenerateReport

SpecMetrics == InitMetrics /\ [][NextMetrics]_vars


----------------------------------------------------------------------------
(* A hybrid engine without TTL driven with gets and sets of one value for  *)
(* long enough that keys fall idle: maintenance passes promote, demote and *)
(* prune.                                                                  *)

MaintConfigs ==
    {[BaseConfig EXCEPT !.kind = "hybrid", !.ops = MaintOps,
                        !.max_time = MaintMaxTime,
                        !.memory_size = HybridMemMax,
                        !.disk_size = Some(HybridDiskMax),
                        !.promotion_threshold = p,
                        !.demotion_threshold = DemotionTicks,
                        !.maintenance_interval = MaintenanceTicks]
        : p \in {<<1, 10>>, <<2, 1>>}}

InitMaint == InitCommon /\ tasks = <<>> /\ config \in MaintConfigs

NextMaint ==
    \/ Tick
    \/ \E key \in HybridKeys : HybridGet(key)
    \/ \E key \in HybridKeys : HybridSet(key, V1)

SpecMaint == InitMaint /\ [][NextMaint]_vars

(* A hybrid engine whose memory tier has room for more than one value *)
RoomyConfigs ==
    {[BaseConfig EXCEPT !.kind = "hybrid", !.ops = HybridOps,
                        !.max_time = 1,
                        !.memory_size = HybridMemMax + 1,
                        !.disk_size = Some(HybridDiskMax),
                        !.promotion_threshold = <<1, 10>>,
                        !.demotion_threshold = DemotionTicks,
                        !.maintenance_interval = MaintenanceTicks]}

InitHybridRoomy == InitCommon /\ tasks = <<>> /\ config \in RoomyConfigs

SpecHybridRoomy == InitHybridRoomy /\ [][NextHybrid]_vars


(* Concurrent gets on the hybrid engine (src/cache/hybrid.rs).  A get is   *)
(* a sequence of awaits: track_access, the memory tier's get, the disk     *)
(* tier's get, then either the promotion or maybe_run_maintenance.  The    *)
(* clock and the other task move between any two of them.                  *)
(* maybe_run_maintenance takes the write lock of last_maintenance, reads   *)
(* the clock for elapsed(), reads it again for the new value and only then *)
(* drops the lock; the pass runs after the drop, under the write lock of   *)
(* the access tracker.  A task at "stamp" holds the lock of                *)
(* last_maintenance.  stream keeps, for each pass, the instant written to  *)
(* last_maintenance and what the two lookups of that get returned.         *)

GetIdle == [pc |-> "idle", key |-> <<>>, mem |-> None, disk |-> None]

GetConcConfigs ==
    {[BaseConfig EXCEPT !.kind = "hybridconc", !.ops = GetConcOps,
                        !.max_time = MaintMaxTime,
                        !.memory_size = HybridMemMax,
                        !.disk_size = Some(HybridDiskMax),
                        !.promotion_threshold = <<1, 10>>,
                        !.demotion_threshold = DemotionTicks,
                        !.maintenance_interval = MaintenanceTicks]}

InitGetConc ==
    /\ InitCommon
    /\ tasks = [t \in Tasks |-> GetIdle]
    /\ config \in GetConcConfigs

GetConcFrame == UNCHANGED <<now, config, written, offered, access_patterns>>

GetDone(t, res) ==
    /\ tasks' = [tasks EXCEPT ![t] = GetIdle]
    /\ last' = Record("get", tasks[t].key, <<>>, res, TRUE, {})

(* get: self.track_access(key).await *)
GetTrack(t, key) ==
    /\ config.kind = "hybridconc" /\ tasks[t].pc = "idle" /\ nops < config.ops
    /\ access_tracker' = track_access(access_tracker, key, now)
    /\ tasks' = [tasks EXCEPT ![t] = [GetIdle EXCEPT !.pc = "memory", !.key = key]]
    /\ nops' = nops + 1
    /\ UNCHANGED <<memory_cache, disk_cache, last_maintenance, last, stream>>
    /\ GetConcFrame

(* get: self.memory_cache.get(key).await *)
GetMemory(t) ==
    /\ config.kind = "hybridconc" /\ tasks[t].pc = "memory"
    /\ LET mg == mem_get(memory_cache, tasks[t].key, now, config.ttl)
       IN  /\ memory_cache' = mg.m
           /\ IF IsSome(mg.res)
              THEN GetDone(t, mg.res)
              ELSE /\ tasks' = [tasks EXCEPT ![t].pc = "disk", ![t].mem = mg.res]
                   /\ UNCHANGED last
    /\ UNCHANGED <<disk_cache, access_tracker, last_maintenance, nops, stream>>
    /\ GetConcFrame

(* get: self.disk_cache.get(key).await *)
GetDisk(t) ==
    /\ config.kind = "hybridconc" /\ tasks[t].pc = "disk"
    /\ LET dg == disk_get(disk_cache, tasks[t].key, now, config.ttl)
       IN  /\ disk_cache' = dg.d
           /\ tasks' = [tasks EXCEPT
                          ![t].pc = IF IsSome(dg.res) THEN "promote" ELSE "maintenance",
                          ![t].disk = dg.res]
    /\ UNCHANGED <<memory_cache, access_tracker, last_maintenance, nops, last,
                   stream>>
    /\ GetConcFrame

(* get, disk hit: should_promote, the memory write and mark_promoted *)
GetPromote(t) ==
    /\ config.kind = "hybridconc" /\ tasks[t].pc = "promote"
    /\ LET key == tasks[t].key
           should_promote ==
               IF key \in DOMAIN access_tracker
               THEN RatGE(frequency(access_tracker[key]), config.promotion_threshold)
               ELSE FALSE
           ms == mem_set(memory_cache, key, Unwrap(tasks[t].disk), now,
                         config.memory_size)
       IN  IF should_promote
           THEN /\ memory_cache' = ms.m
                /\ access_tracker' =
                       IF ms.ok /\ key \in DOMAIN access_tracker
                       THEN [access_tracker EXCEPT ![key] = mark_promoted(@, now)]
                       ELSE access_tracker
           ELSE UNCHANGED <<memory_cache, access_tracker>>
    /\ GetDone(t, tasks[t].disk)
    /\ UNCHANGED <<disk_cache, last_maintenance, nops, stream>>
    /\ GetConcFrame

(* maybe_run_maintenance: take the write lock and test elapsed() *)
GetMaintenanceCheck(t) ==
    /\ config.kind = "hybridconc" /\ tasks[t].pc = "maintenance"
    /\ \A u \in Tasks : tasks[u].pc # "stamp"
    /\ IF maintenance_due(last_maintenance, now, config)
       THEN /\ tasks' = [tasks EXCEPT ![t].pc = "stamp"]
            /\ UNCHANGED last
       ELSE GetDone(t, None)
    /\ UNCHANGED <<memory_cache, disk_cache, access_tracker, last_maintenance,
                   nops, stream>>
    /\ GetConcFrame

(* maybe_run_maintenance: *last_maintenance = Instant::now(); drop *)
GetMaintenanceStamp(t) ==
    /\ config.kind = "hybridconc" /\ tasks[t].pc = "stamp"
    /\ last_maintenance' = now
    /\ stream' = Append(stream, [at |-> now, task |-> t, mem |-> tasks[t].mem,
                                 disk |-> tasks[t].disk])
    /\ tasks' = [tasks EXCEPT ![t].pc = "pass"]
    /\ UNCHANGED <<memory_cache, disk_cache, access_tracker, nops, last>>
    /\ GetConcFrame

(* maybe_run_maintenance: self.run_maintenance().await *)
GetMaintenancePass(t) ==
    /\ config.kind = "hybridconc" /\ tasks[t].pc = "pass"
    /\ \E h \in run_maintenance(Hybrid, now, config) :
         /\ memory_cache' = h.mem
         /\ disk_cache' = h.disk
         /\ access_tracker' = h.tracker
    /\ GetDone(t, None)
    /\ UNCHANGED <<last_maintenance, nops, stream>>
    /\ GetConcFrame

(* set, by a third task, between the steps of the gets *)
GetConcSet(key, value) ==
    /\ config.kind = "hybridconc" /\ nops < config.ops
    /\ \E r \in hybrid_set(Hybrid, key, value, now, config) :
         /\ memory_cache' = r.h.mem
         /\ disk_cache' = r.h.disk
         /\ access_tracker' = r.h.tracker
         /\ last' = Record("set", key, value, None, r.ok, {})
    /\ nops' = nops + 1
    /\ UNCHANGED <<last_maintenance, tasks, stream>>
    /\ GetConcFrame

NextGetConc ==
    \/ Tick
    \/ \E t \in Tasks, key \in HybridKeys : GetTrack(t, key)
    \/ \E t \in Tasks : GetMemory(t)
    \/ \E t \in Tasks : GetDisk(t)
    \/ \E t \in Tasks : GetPromote(t)
    \/ \E t \in Tasks : GetMaintenanceCheck(t)
    \/ \E t \in Tasks : GetMaintenanceStamp(t)
    \/ \E t \in Tasks : GetMaintenancePass(t)
    \/ \E key \in HybridKeys : GetConcSet(key, V1)

SpecGetConc == InitGetConc /\ [][NextGetConc]_vars


(* Concurrent sets on distinct keys: every set is the first one for its    *)
(* key, on the disk tier (step by step as above) or on the memory tier     *)
(* (section by section under its lock).                                    *)
FreshConfigs == ConcConfigs \cup {[c EXCEPT !.memory_size = DiskMax] : c \in LockConfigs}

InitFresh ==
    /\ InitCommon
    /\ config \in FreshConfigs
    /\ tasks = [t \in Tasks |-> IF config.kind = "disk" THEN Idle ELSE LockIdle]

FreshDiskSet(t, key, value) ==
    /\ config.kind = "disk" /\ key \notin DOMAIN offered
    /\ ConcSetEvict(t, key, value)

FreshMemSet(t, key, value) ==
    /\ config.kind = "mem" /\ key \notin DOMAIN offered
    /\ tasks[t].pc = "idle" /\ nops < config.ops
    /\ tasks' = [tasks EXCEPT ![t] = [pc |-> "want", op |-> "set", key |-> key,
                                      val |-> value, todo |-> Sections("set")]]
    /\ offered' = With(offered, key, {value})
    /\ nops' = nops + 1
    /\ UNCHANGED <<now, config, memory_cache, disk_cache, access_tracker,
                   last_maintenance, last, written, stream, access_patterns>>

NextFresh ==
    \/ Tick
    \/ \E t \in Tasks, key \in ConcKeys, value \in ConcValues : FreshDiskSet(t, key, value)
    \/ \E t \in Tasks : ConcSetCreate(t)
    \/ \E t \in Tasks : ConcSetWrite(t)
    \/ \E t \in Tasks : ConcSetIndex(t)
    \/ \E t \in Tasks, key \in ConcKeys, value \in ConcValues : FreshMemSet(t, key, value)
    \/ \E t \in Tasks : LockAcquire(t)
    \/ \E t \in Tasks : LockRun(t)

SpecFresh == InitFresh /\ [][NextFresh]_vars


(* The hybrid engine driven on one key with a clock that runs for two      *)
(* seconds: the frequency of a promoted key falls below the threshold      *)
(* again.                                                                  *)
InitHybridLong == InitMaint

NextHybridLong ==
    \/ Tick
    \/ HybridGet(KeyC)
    \/ \E value \in HybridValues : HybridSet(KeyC, value)

SpecHybridLong == InitHybridLong /\ [][NextHybridLong]_vars


----------------------------------------------------------------------------
(* Prefetch strategies (src/prefetch.rs) over a memory tier.  A result is  *)
(* the cache after the call, the keys passed to the loader in order and    *)
(* the strategy's queue after the call.                                    *)

pop_front(queue) == IF queue = <<>> THEN queue ELSE Tail(queue)

(* the loop over keys of NeighborChunkPrefetch::prefetch; acc = [m, queue] *)
RECURSIVE neighbor_enqueue(_, _, _, _, _)
neighbor_enqueue(acc, keys, max_queue_size, t, cfg) ==
    IF keys = <<>> THEN acc
    ELSE LET key == Head(keys)
             q == IF Len(acc.queue) >= max_queue_size
                  THEN pop_front(acc.queue) ELSE acc.queue
             g == mem_get(acc.m, key, t, cfg.ttl)
         IN  neighbor_enqueue(
                 [m |-> g.m, queue |-> IF g.res = None THEN Append(q, key) ELSE q],
                 Tail(keys), max_queue_size, t, cfg)

(* the loop over keys_to_fetch; acc = [m, calls] *)
RECURSIVE fetch_keys(_, _, _, _, _)
fetch_keys(acc, keys, loader, t, cfg) ==
    IF keys = <<>> THEN acc
    ELSE LET key == Head(keys)
             data == load(loader, key)
             calls == Append(acc.calls, key)
         IN  fetch_keys(
                 IF IsSome(data)
                 THEN [m |-> mem_set(acc.m, key, Unwrap(data), t, cfg.memory_size).m,
                       calls |-> calls]
                 ELSE [acc EXCEPT !.calls = calls],
                 Tail(keys), loader, t, cfg)

(* queue.drain(..).take(max_queue_size): the whole queue is removed *)
neighbor_prefetch(m, queue, keys, loader, max_queue_size, t, cfg) ==
    LET e == neighbor_enqueue([m |-> m, queue |-> queue], keys, max_queue_size, t, cfg)
        f == fetch_keys([m |-> e.m, calls |-> <<>>],
                        truncate(e.queue, max_queue_size), loader, t, cfg)
    IN  [m |-> f.m, calls |-> f.calls, queue |-> <<>>, enqueued |-> e.queue]

(* the loop of SequentialPrefetch::prefetch; acc = [m, calls, count] *)
RECURSIVE sequential_loop_unchecked(_, _, _, _, _, _)
sequential_loop_unchecked(acc, keys, loader, max_queue_size, t, cfg) ==
    IF keys = <<>> \/ acc.count >= max_queue_size THEN acc
    ELSE LET key == Head(keys)
             data == load(loader, key)
             s == mem_set(acc.m, key, Unwrap(data), t, cfg.memory_size)
         IN  sequential_loop_unchecked(
                 IF data = None THEN [acc EXCEPT !.calls = Append(@, key)]
                 ELSE [m |-> s.m, calls |-> Append(acc.calls, key),
                       count |-> IF s.ok THEN acc.count + 1 ELSE acc.count],
                 Tail(keys), loader, max_queue_size, t, cfg)

RECURSIVE sequential_loop(_, _, _, _, _, _)
sequential_loop(acc, keys, loader, max_queue_size, t, cfg) ==
    IF keys = <<>> \/ acc.count >= max_queue_size THEN acc
    ELSE LET key == Head(keys)
             g == mem_get(acc.m, key, t, cfg.ttl)
             data == load(loader, key)
             s == mem_set(g.m, key, Unwrap(data), t, cfg.memory_size)
         IN  sequential_loop(
                 IF IsSome(g.res) THEN [acc EXCEPT !.m = g.m]
                 ELSE IF data = None
                      THEN [acc EXCEPT !.m = g.m, !.calls = Append(@, key)]
                      ELSE [m |-> s.m, calls |-> Append(acc.calls, key),
                            count |-> IF s.ok THEN acc.count + 1 ELSE acc.count],
                 Tail(keys), loader, max_queue_size, t, cfg)

sequential_prefetch(m, keys, loader, max_queue_size, t, cfg) ==
    LET r == sequential_loop([m |-> m, calls |-> <<>>, count |-> 0], keys, loader,
                             max_queue_size, t, cfg)
    IN  [m |-> r.m, calls |-> r.calls]

(* Inputs: key lists of up to MaxKeys keys, repeats included; a loader     *)
(* that returns None for one of the keys                                   *)
PrefetchKeys == {Chunk1(0), Chunk1(1), Chunk1(2)}
KeyLists == UNION {[1..n -> PrefetchKeys] : n \in 0..MaxKeys}
PrefetchLoaders ==
    {[k \in PrefetchKeys |-> IF k = Chunk1(2) THEN None ELSE Some(V1)]}

PrefetchConfigs ==
    {[kind |-> "prefetch", ops |-> PrefetchOps, ttl |-> None, memory_size |-> S,
      max_queue_size |-> q, loader |-> ld]
        : S \in 1..PrefetchMemMax, q \in 0..MaxQueue, ld \in PrefetchLoaders}

InitPrefetch == InitCommon /\ tasks = <<>> /\ config \in PrefetchConfigs

PrefetchFrame == UNCHANGED <<now, config, disk_cache, access_tracker,
                             last_maintenance, written, offered, tasks,
                             access_patterns>>

(* cache.set by the application; nops counts the prefetch calls *)
PrefetchSet(key, value) ==
    /\ config.kind = "prefetch" /\ nops < config.ops
    /\ memory_cache' = mem_set(memory_cache, key, value, now, config.memory_size).m
    /\ last' = [op |-> "set", key |-> key]
    /\ UNCHANGED <<nops, stream>>
    /\ PrefetchFrame

(* NeighborChunkPrefetch::prefetch; stream is its prefetch_queue.  last    *)
(* also keeps what SequentialPrefetch::prefetch does from the same state   *)
PrefetchNeighbor(keys) ==
    /\ config.kind = "prefetch" /\ nops < config.ops
    /\ LET r == neighbor_prefetch(memory_cache, stream, keys, config.loader,
                                  config.max_queue_size, now, config)
           o == sequential_prefetch(memory_cache, keys, config.loader,
                                    config.max_queue_size, now, config)
       IN  /\ memory_cache' = r.m
           /\ stream' = r.queue
           /\ last' = [op |-> "neighbor", keys |-> keys, before |-> memory_cache,
                       calls |-> r.calls, enqueued |-> r.enqueued, other |-> o]
    /\ nops' = nops + 1
    /\ PrefetchFrame

(* SequentialPrefetch::prefetch *)
PrefetchSequential(keys) ==
    /\ config.kind = "prefetch" /\ nops < config.ops
    /\ LET r == sequential_prefetch(memory_cache, keys, config.loader,
                                    config.max_queue_size, now, config)
       IN  /\ memory_cache' = r.m
           /\ last' = [op |-> "sequential", keys |-> keys, before |-> memory_cache,
                       calls |-> r.calls]
    /\ nops' = nops + 1
    /\ UNCHANGED stream
    /\ PrefetchFrame

NextPrefetch ==
    \/ \E key \in PrefetchKeys : PrefetchSet(key, V1)
    \/ \E keys \in KeyLists : PrefetchNeighbor(keys)
    \/ \E keys \in KeyLists : PrefetchSequential(keys)

SpecPrefetch == InitPrefetch /\ [][NextPrefetch]_vars


----------------------------------------------------------------------------
(* The hybrid engine with its locks (src/cache/hybrid.rs).  Every await of *)
(* an operation is a step of its own; a call of a tier is one step (the    *)
(* tier serialises its calls), and so is each half of a maintenance pass.  *)
(* run_maintenance holds the write lock of the access tracker from its     *)
(* first line to its return: a task at "pass"                              *)
(* holds it, and every step that reads or writes the tracker waits while   *)
(* it is held.  A task at "stamp" holds the write lock of                  *)
(* last_maintenance.  nops counts the operations started.  alone tells of  *)
(* a remove or clear that no set has run beside it; offered keeps the keys *)
(* whose remove (or a clear) has completed alone with no set issued since. *)

StepIdle == [pc |-> "idle", op |-> "", key |-> <<>>, val |-> <<>>, found |-> None,
             promotions |-> <<>>, demotions |-> <<>>, alone |-> TRUE]

StepConfigs ==
    {[BaseConfig EXCEPT !.kind = "steps", !.ops = StepOps, !.max_time = 0,
                        !.memory_size = HybridMemMax,
                        !.disk_size = Some(HybridDiskMax),
                        !.promotion_threshold = p,
                        !.demotion_threshold = DemotionTicks,
                        !.maintenance_interval = 0]
        : p \in {<<1, 10>>, <<2, 1>>}}

InitSteps ==
    /\ InitCommon
    /\ tasks = [t \in Tasks |-> StepIdle]
    /\ config \in StepConfigs

StepFrame == UNCHANGED <<now, config, written, stream, access_patterns>>

(* self.access_tracker.write() or .read() has to wait *)
tracker_unlocked_always(ts) == FALSE

tracker_locked(ts) == \E u \in Tasks : ts[u].pc = "pass"

At(t, pc) == config.kind = "steps" /\ tasks[t].pc = pc

Goto(t, pc) == tasks' = [tasks EXCEPT ![t].pc = pc]

Done(t, res, ok) ==
    /\ tasks' = [tasks EXCEPT ![t] = StepIdle]
    /\ last' = Record(tasks[t].op, tasks[t].key, tasks[t].val, res, ok, {})

SetInFlight == \E u \in Tasks : tasks[u].op = "set"

(* a task calls get, set, remove or clear *)
StepStart(t, op, key, value) ==
    /\ At(t, "idle") /\ nops < config.ops
    /\ tasks' = [u \in Tasks |->
                   IF u = t
                   THEN [StepIdle EXCEPT !.op = op, !.key = key, !.val = value,
                                         !.alone = ~SetInFlight,
                                         !.pc = IF op \in {"get", "set"} THEN "track"
                                                ELSE "memory"]
                   ELSE [tasks[u] EXCEPT !.alone = @ /\ op # "set"]]
    /\ offered' = IF op = "set" THEN Without(offered, {key}) ELSE offered
    /\ nops' = nops + 1
    /\ UNCHANGED <<memory_cache, disk_cache, access_tracker, last_maintenance, last>>
    /\ StepFrame

(* get, set: self.track_access(key).await *)
StepTrack(t) ==
    /\ At(t, "track") /\ ~tracker_locked(tasks)
    /\ access_tracker' = track_access(access_tracker, tasks[t].key, now)
    /\ Goto(t, IF tasks[t].op = "get" THEN "memory" ELSE "disk")
    /\ UNCHANGED <<memory_cache, disk_cache, last_maintenance, nops, last, offered>>
    /\ StepFrame

(* the call of the memory tier: get's lookup, remove's and clear's first   *)
(* line                                                                    *)
StepMemory(t) ==
    /\ At(t, "memory")
    /\ LET mg == mem_get(memory_cache, tasks[t].key, now, config.ttl)
       IN  IF tasks[t].op = "get"
           THEN /\ memory_cache' = mg.m
                /\ IF IsSome(mg.res) THEN Done(t, mg.res, TRUE)
                   ELSE Goto(t, "disk") /\ UNCHANGED last
           ELSE /\ memory_cache' = IF tasks[t].op = "remove"
                                   THEN mem_remove(memory_cache, tasks[t].key)
                                   ELSE mem_clear(memory_cache)
                /\ Goto(t, "disk") /\ UNCHANGED last
    /\ UNCHANGED <<disk_cache, access_tracker, last_maintenance, nops, offered>>
    /\ StepFrame

(* the call of the disk tier: get's lookup, set's write (an error returns  *)
(* at once), remove's and clear's second line                              *)
StepDisk(t) ==
    /\ At(t, "disk")
    /\ LET me == tasks[t]
           dg == disk_get(disk_cache, me.key, now, config.ttl)
       IN  IF me.op = "get"
           THEN /\ disk_cache' = dg.d
                /\ tasks' = [tasks EXCEPT
                               ![t].pc = IF IsSome(dg.res) THEN "should_promote"
                                         ELSE "maintenance",
                               ![t].found = dg.res]
                /\ UNCHANGED last
           ELSE IF me.op = "set"
           THEN \E ds \in disk_set(disk_cache, me.key, me.val, now, config.disk_size) :
                   /\ disk_cache' = ds.d
                   /\ IF ds.ok THEN Goto(t, "should_cache") /\ UNCHANGED last
                      ELSE Done(t, None, FALSE)
           ELSE /\ disk_cache' = IF me.op = "remove"
                                 THEN disk_remove(disk_cache, me.key)
                                 ELSE disk_clear(disk_cache)
                /\ Goto(t, "tracker") /\ UNCHANGED last
    /\ UNCHANGED <<memory_cache, access_tracker, last_maintenance, nops, offered>>
    /\ StepFrame

(* get, disk hit: should_promote under the read lock of the tracker *)
StepShouldPromote(t) ==
    /\ At(t, "should_promote") /\ ~tracker_locked(tasks)
    /\ LET key == tasks[t].key
           should_promote ==
               IF key \in DOMAIN access_tracker
               THEN RatGE(frequency(access_tracker[key]), config.promotion_threshold)
               ELSE FALSE
       IN  IF should_promote THEN Goto(t, "promote") /\ UNCHANGED last
           ELSE Done(t, tasks[t].found, TRUE)
    /\ UNCHANGED <<memory_cache, disk_cache, access_tracker, last_maintenance,
                   nops, offered>>
    /\ StepFrame

(* get, disk hit: self.memory_cache.set(key, data.clone()).await *)
StepPromote(t) ==
    /\ At(t, "promote")
    /\ LET ms == mem_set(memory_cache, tasks[t].key, Unwrap(tasks[t].found), now,
                         config.memory_size)
       IN  /\ memory_cache' = ms.m
           /\ IF ms.ok THEN Goto(t, "mark") /\ UNCHANGED last
              ELSE Done(t, tasks[t].found, TRUE)
    /\ UNCHANGED <<disk_cache, access_tracker, last_maintenance, nops, offered>>
    /\ StepFrame

(* get, disk hit: mark_promoted under the write lock of the tracker *)
StepMark(t) ==
    /\ At(t, "mark") /\ ~tracker_locked(tasks)
    /\ access_tracker' =
           IF tasks[t].key \in DOMAIN access_tracker
           THEN [access_tracker EXCEPT ![tasks[t].key] = mark_promoted(@, now)]
           ELSE access_tracker
    /\ Done(t, tasks[t].found, TRUE)
    /\ UNCHANGED <<memory_cache, disk_cache, last_maintenance, nops, offered>>
    /\ StepFrame

(* set: should_cache_in_memory under the read lock of the tracker *)
StepShouldCache(t) ==
    /\ At(t, "should_cache") /\ ~tracker_locked(tasks)
    /\ LET key == tasks[t].key
           should_cache_in_memory ==
               IF key \in DOMAIN access_tracker
               THEN RatGE(frequency(access_tracker[key]), config.promotion_threshold)
               ELSE TRUE
       IN  IF should_cache_in_memory THEN Goto(t, "cache") /\ UNCHANGED last
           ELSE Done(t, None, TRUE)
    /\ UNCHANGED <<memory_cache, disk_cache, access_tracker, last_maintenance,
                   nops, offered>>
    /\ StepFrame

(* set: self.memory_cache.set(key, value).await, its error only logged *)
StepCache(t) ==
    /\ At(t, "cache")
    /\ memory_cache' = mem_set(memory_cache, tasks[t].key, tasks[t].val, now,
                               config.memory_size).m
    /\ Done(t, None, TRUE)
    /\ UNCHANGED <<disk_cache, access_tracker, last_maintenance, nops, offered>>
    /\ StepFrame

(* remove, clear: the tracker under its write lock; the operation returns *)
StepTracker(t) ==
    /\ At(t, "tracker") /\ ~tracker_locked(tasks)
    /\ access_tracker' = IF tasks[t].op = "remove"
                         THEN Without(access_tracker, {tasks[t].key}) ELSE <<>>
    /\ offered' =
           IF ~tasks[t].alone THEN offered
           ELSE IF tasks[t].op = "remove" THEN With(offered, tasks[t].key, TRUE)
           ELSE [k \in HybridKeys |-> TRUE]
    /\ Done(t, None, TRUE)
    /\ UNCHANGED <<memory_cache, disk_cache, last_maintenance, nops>>
    /\ StepFrame

(* get, both tiers missed: maybe_run_maintenance takes the write lock of   *)
(* last_maintenance and tests elapsed()                                    *)
StepMaintenanceCheck(t) ==
    /\ At(t, "maintenance")
    /\ \A u \in Tasks : tasks[u].pc # "stamp"
    /\ IF maintenance_due(last_maintenance, now, config)
       THEN Goto(t, "stamp") /\ UNCHANGED last
       ELSE Done(t, None, TRUE)
    /\ UNCHANGED <<memory_cache, disk_cache, access_tracker, last_maintenance,
                   nops, offered>>
    /\ StepFrame

(* maybe_run_maintenance: *last_maintenance = Instant::now(); drop *)
StepMaintenanceStamp(t) ==
    /\ At(t, "stamp")
    /\ last_maintenance' = now
    /\ Goto(t, "run")
    /\ UNCHANGED <<memory_cache, disk_cache, access_tracker, nops, last, offered>>
    /\ StepFrame

(* run_maintenance: the write lock of the tracker, then the loop that      *)
(* collects promotions and demotions                                       *)
StepPassAnalyze(t) ==
    /\ At(t, "run") /\ ~tracker_locked(tasks)
    /\ \E order \in Perms(DOMAIN access_tracker) :
         LET a == maint_analyze([mem |-> memory_cache, disk |-> disk_cache,
                                 promotions |-> <<>>, demotions |-> <<>>],
                                access_tracker, order, now, config)
         IN  /\ memory_cache' = a.mem
             /\ disk_cache' = a.disk
             /\ tasks' = [tasks EXCEPT ![t].pc = "pass",
                                       ![t].promotions = a.promotions,
                                       ![t].demotions = a.demotions]
    /\ UNCHANGED <<access_tracker, last_maintenance, nops, last, offered>>
    /\ StepFrame

(* run_maintenance: the promotions, the demotions, the retain; the lock is *)
(* released on return                                                      *)
StepPassExecute(t) ==
    /\ At(t, "pass")
    /\ LET hp == maint_promote(Hybrid, tasks[t].promotions, now, config)
       IN  \E hd \in maint_demote(hp, tasks[t].demotions, now, config) :
             /\ memory_cache' = hd.mem
             /\ disk_cache' = hd.disk
             /\ access_tracker' =
                    Without(hd.tracker,
                            {k \in DOMAIN hd.tracker :
                               should_demote(hd.tracker[k], now,
                                             config.demotion_threshold * 2)})
    /\ Done(t, None, TRUE)
    /\ UNCHANGED <<last_maintenance, nops, offered>>
    /\ StepFrame

Step(t) ==
    \/ StepTrack(t) \/ StepMemory(t) \/ StepDisk(t)
    \/ StepShouldPromote(t) \/ StepPromote(t) \/ StepMark(t)
    \/ StepShouldCache(t) \/ StepCache(t) \/ StepTracker(t)
    \/ StepMaintenanceCheck(t) \/ StepMaintenanceStamp(t)
    \/ StepPassAnalyze(t) \/ StepPassExecute(t)

NextSteps ==
    \/ \E t \in Tasks, op \in {"get", "remove"} : StepStart(t, op, KeyC, <<>>)
    \/ \E t \in Tasks : StepStart(t, "set", KeyC, V1)
    \/ \E t \in Tasks : StepStart(t, "clear", <<>>, <<>>)
    \/ \E t \in Tasks : Step(t)

SpecSteps == InitSteps /\ [][NextSteps]_vars

(* tokio's scheduler polls every woken task and its RwLock queues waiters  *)
(* in order of arrival: a task whose next step stays possible takes it     *)
SpecStepsFair == SpecSteps /\ \A t \in Tasks : WF_vars(Step(t))

----------------------------------------------------------------------------
(* Properties *)

IsOp(name) == nops' = nops + 1 /\ last'.op = name

(* C1: hybrid engine, single task: when set(k, v) has returned Ok and the  *)
(* next operation is get(k), with only the clock advancing in between and  *)
(* v not older than the TTL, that get returns v.                           *)
C1_SetThenGet ==
    [][ (/\ config.kind = "hybrid"
         /\ last.op = "set" /\ last.ok
         /\ IsOp("get") /\ last'.key = last.key
         /\ (IsSome(config.ttl) => now - written[last.key].t <= Unwrap(config.ttl)))
        => last'.res = Some(last.val) ]_vars

(* C2: memory tier: size() equals the sum of the byte lengths of the       *)
(* values currently stored.                                                *)
C2_MemSizeIsSum ==
    config.kind = "mem" =>
        mem_size(memory_cache) = SumLen(memory_cache.cache)

(* C3: memory tier: set returns CacheFull only for a value longer than     *)
(* max_size; every value of length <= max_size is accepted.                *)
C3_CacheFullOnlyWhenTooLarge ==
    (config.kind = "mem" /\ last.op = "set" /\ ~last.ok)
        => Len(last.val) > config.memory_size

(* C4: hybrid engine with TTL tau: a get(k) that returns a value runs at   *)
(* most tau after the last set(k); promotion and demotion do not extend    *)
(* the life of a value.                                                    *)
C4_TtlBoundsLife ==
    [][ (/\ config.kind = "hybrid" /\ IsSome(config.ttl)
         /\ IsOp("get") /\ IsSome(last'.res))
        => /\ last'.key \in DOMAIN written
           /\ now - written[last'.key].t <= Unwrap(config.ttl) ]_vars

(* C5: hybrid engine: every key held in the memory tier is also indexed in *)
(* the disk tier.                                                          *)
C5_MemoryKeysOnDisk ==
    config.kind = "hybrid" =>
        \A i \in 1..Len(memory_cache.cache) :
            memory_cache.cache[i].key \in DOMAIN disk_cache.index

(* C6: hybrid engine: a successful set on a key without an access-tracker  *)
(* entry also stores the value in the memory tier when the value fits the  *)
(* memory tier, whatever promotion_threshold is.                           *)
C6_NewKeyCachedInMemory ==
    [][ (/\ config.kind = "hybrid"
         /\ IsOp("set") /\ last'.ok
         /\ last'.key \notin DOMAIN access_tracker
         /\ Len(last'.val) <= config.memory_size)
        => /\ MemHas(memory_cache', last'.key)
           /\ MemEntry(memory_cache', last'.key).data = last'.val ]_vars

(* C7: disk tier: a get(k) returns absence or a value that was passed to   *)
(* a set(k, .), never any other byte string, also while a set(k, new) that *)
(* replaces old is running.                                                *)
C7_GetReturnsOldOrNew ==
    (tasks # <<>> /\ last.op = "get" /\ IsSome(last.res))
        => /\ last.key \in DOMAIN offered
           /\ Unwrap(last.res) \in offered[last.key]

(* C8: memory tier and disk tier with TTL tau: a get(k) more than tau      *)
(* after the set that stored k's entry returns absence, leaves k out of    *)
(* the tier, adds 1 to misses and 0 to hits, and lowers size() by the byte *)
(* length of k's entry (and by the lengths of the other expired entries it *)
(* sweeps).                                                                *)
MemOtherExpired(key) ==
    SumLen(SelectSeq(memory_cache.cache,
                     LAMBDA e : e.key # key /\ now - e.timestamp > Unwrap(config.ttl)))

DiskOtherExpired(key) ==
    SumSizes([k \in {x \in DOMAIN disk_cache.index \ {key} :
                       now - disk_cache.index[x].created_at > Unwrap(config.ttl)}
                |-> disk_cache.index[k]])

C8_ExpiredGet ==
    [][ \A key \in Keys :
        (IsSome(config.ttl) /\ IsOp("get") /\ last'.key = key)
        => /\ (/\ config.kind = "mem"
               /\ MemHas(memory_cache, key)
               /\ now - MemEntry(memory_cache, key).timestamp > Unwrap(config.ttl))
              => /\ last'.res = None
                 /\ ~MemHas(memory_cache', key)
                 /\ memory_cache'.misses = memory_cache.misses + 1
                 /\ memory_cache'.hits = memory_cache.hits
                 /\ mem_size(memory_cache') = mem_size(memory_cache)
                        - Len(MemEntry(memory_cache, key).data) - MemOtherExpired(key)
           /\ (/\ config.kind = "disk"
               /\ key \in DOMAIN disk_cache.index
               /\ now - disk_cache.index[key].created_at > Unwrap(config.ttl))
              => /\ last'.res = None
                 /\ key \notin DOMAIN disk_cache'.index
                 /\ disk_cache'.misses = disk_cache.misses + 1
                 /\ disk_cache'.hits = disk_cache.hits
                 /\ disk_size(disk_cache') = disk_size(disk_cache)
                        - disk_cache.index[key].size - DiskOtherExpired(key) ]_vars

(* a disk get found its key expired and removed it, another entry stays *)
C8_Witness ==
    /\ config.kind = "disk" /\ IsSome(config.ttl)
    /\ last.op = "get" /\ "expired" \in last.tags /\ last.res = None
    /\ last.key \notin DOMAIN disk_cache.index
    /\ DOMAIN disk_cache.index # {}

(* C9: disk tier, one operation at a time: size() equals the sum of the    *)
(* sizes recorded in the index and never exceeds the configured maximum.   *)
C9_DiskSizeIsSum ==
    config.kind = "disk" =>
        /\ disk_size(disk_cache) = SumSizes(disk_cache.index)
        /\ IsSome(config.disk_size) =>
               disk_size(disk_cache) <= Unwrap(config.disk_size)

(* a bounded disk tier after a set that replaced its key and evicted another *)
C9_Witness ==
    /\ config.kind = "disk" /\ IsSome(config.disk_size)
    /\ last.op = "set" /\ last.ok
    /\ "replace" \in last.tags /\ DOMAIN last.evicted # {}
    /\ disk_size(disk_cache) > 0

(* C10: disk tier with a maximum: a set evicts in ascending order of       *)
(* last_accessed, not of insertion: no key it evicted was accessed later   *)
(* than a key that survived it.                                            *)
C10_EvictsLeastRecentlyAccessed ==
    (config.kind = "disk" /\ last.op = "set")
        => \A e \in DOMAIN last.evicted :
             \A s \in DOMAIN disk_cache.index \ {last.key} :
                last.evicted[e].last_accessed <= disk_cache.index[s].last_accessed

(* a key touched by get survived the set that evicted an untouched key of  *)
(* equal size inserted after it                                            *)
C10_Witness ==
    /\ config.kind = "disk"
    /\ last.op = "set" /\ last.ok
    /\ \E a \in DOMAIN disk_cache.index \ {last.key} :
         /\ disk_cache.index[a].last_accessed > disk_cache.index[a].created_at
         /\ \E b \in DOMAIN last.evicted :
              /\ last.evicted[b].created_at > disk_cache.index[a].created_at
              /\ last.evicted[b].last_accessed = last.evicted[b].created_at
              /\ last.evicted[b].last_accessed < disk_cache.index[a].last_accessed
              /\ last.evicted[b].size = disk_cache.index[a].size

(* C11 as stated: memory tier of capacity S fed distinct keys with values  *)
(* of one size s <= S: once ceil(S/s) + k keys are in, exactly k keys have *)
(* been evicted and the survivors are the most recently inserted ones.     *)
StreamKeys(from, to) == {stream[i].key : i \in from..to}
StreamSurvivors == {memory_cache.cache[i].key : i \in 1..Len(memory_cache.cache)}
StreamEvicted == StreamKeys(1, Len(stream)) \ StreamSurvivors

C11_CeilSurvive ==
    stream # <<>> =>
        LET n == Len(stream)
            s == Len(stream[1].val)
            c == (config.memory_size + s - 1) \div s
        IN  n >= c => /\ Cardinality(StreamEvicted) = n - c
                      /\ StreamSurvivors = StreamKeys(n - c + 1, n)

(* C11 amended: the same with floor(S/s) in place of ceil(S/s).            *)
C11_FloorSurvive ==
    stream # <<>> =>
        LET n == Len(stream)
            s == Len(stream[1].val)
            f == config.memory_size \div s
        IN  n >= f => /\ Cardinality(StreamEvicted) = n - f
                      /\ StreamSurvivors = StreamKeys(n - f + 1, n)

(* three keys of one byte went into a tier of two bytes: the first is gone *)
C11_Witness ==
    /\ Len(stream) = 3 /\ config.memory_size = 2 /\ Len(stream[1].val) = 1
    /\ StreamSurvivors = {stream[2].key, stream[3].key}

(* C12: disk tier: a get(k) that finds k indexed and unexpired but cannot  *)
(* read its file returns absence, leaves k out of the index and its file   *)
(* out of the directory, lowers size() by the entry's recorded size (and   *)
(* by the sizes of the expired entries it sweeps) and adds 1 to misses.    *)
C12_ReadErrorGet ==
    [][ \A key \in Keys :
        (/\ config.kind = "disk" /\ IsOp("get") /\ last'.key = key
         /\ "unreadable" \in last'.tags)
        => /\ last'.res = None
           /\ key \notin DOMAIN disk_cache'.index
           /\ key_to_path(key) \notin DOMAIN disk_cache'.files
           /\ disk_cache'.misses = disk_cache.misses + 1
           /\ disk_cache'.hits = disk_cache.hits
           /\ disk_size(disk_cache') = disk_size(disk_cache) - disk_cache.index[key].size
                  - (IF IsSome(config.ttl) THEN DiskOtherExpired(key) ELSE 0) ]_vars

(* C13: hybrid engine, single task: remove(k) returns Ok, also for an      *)
(* absent key, and leaves k out of the memory tier, the disk tier and the  *)
(* access tracker; a get(k) that is the next operation returns absence.    *)
C13_RemoveRemoves ==
    [][ /\ (config.kind = "hybrid" /\ IsOp("remove"))
            => /\ last'.ok
               /\ ~MemHas(memory_cache', last'.key)
               /\ last'.key \notin DOMAIN disk_cache'.index
               /\ last'.key \notin DOMAIN access_tracker'
        /\ (/\ config.kind = "hybrid" /\ last.op = "remove"
            /\ IsOp("get") /\ last'.key = last.key)
            => last'.res = None ]_vars

(* a key held by both tiers and tracked has just been removed *)
C13_Witness ==
    /\ config.kind = "hybrid" /\ last.op = "remove"
    /\ last.tags = {"mem", "disk", "tracked"}
    /\ ~MemHas(memory_cache, last.key)
    /\ last.key \notin DOMAIN disk_cache.index

(* C14: memory tier, disk tier and hybrid engine: once clear() has         *)
(* returned, and until the next operation, size() is 0, stats().entry_count *)
(* is 0 and a get of any key returns absence; the hybrid engine's access   *)
(* tracker is empty.                                                       *)
C14_ClearEmpties ==
    last.op = "clear" =>
        /\ config.kind = "mem" =>
              /\ mem_size(memory_cache) = 0
              /\ mem_stats(memory_cache).entry_count = 0
              /\ \A key \in Keys :
                    mem_get(memory_cache, key, now, config.ttl).res = None
        /\ config.kind = "disk" =>
              /\ disk_size(disk_cache) = 0
              /\ disk_stats(disk_cache).entry_count = 0
              /\ \A key \in Keys :
                    disk_get(disk_cache, key, now, config.ttl).res = None
        /\ config.kind = "hybrid" =>
              /\ hybrid_size(Hybrid) = 0
              /\ hybrid_stats(Hybrid).entry_count = 0
              /\ access_tracker = <<>>
              /\ \A key \in Keys :
                    \A r \in hybrid_get(Hybrid, key, now, config) : r.res = None

(* a hybrid engine holding entries in both tiers has just been cleared *)
C14_Witness ==
    /\ config.kind = "hybrid" /\ last.op = "clear" /\ "nonempty" \in last.tags
    /\ hybrid_size(Hybrid) = 0

(* C15: memory tier and disk tier: hits and misses never decrease; set,    *)
(* remove and clear (and the passing of time) leave both unchanged; every  *)
(* get adds exactly 1 to exactly one of them, to hits iff it returns a     *)
(* value.                                                                  *)
TierHits(m, d) == IF config.kind = "mem" THEN m.hits ELSE d.hits
TierMisses(m, d) == IF config.kind = "mem" THEN m.misses ELSE d.misses

C15_CountersStep ==
    [][ config.kind \in {"mem", "disk"} =>
        LET h0 == TierHits(memory_cache, disk_cache)
            m0 == TierMisses(memory_cache, disk_cache)
            h1 == TierHits(memory_cache', disk_cache')
            m1 == TierMisses(memory_cache', disk_cache')
        IN  IF IsOp("get")
            THEN IF IsSome(last'.res) THEN h1 = h0 + 1 /\ m1 = m0
                                      ELSE h1 = h0 /\ m1 = m0 + 1
            ELSE h1 = h0 /\ m1 = m0 ]_vars

(* a memory tier that has counted a hit has just counted an expired get *)
C15_Witness ==
    /\ config.kind = "mem" /\ last.op = "get" /\ "expired" \in last.tags
    /\ memory_cache.hits >= 1 /\ memory_cache.misses >= 1

(* C16: memory tier, disk tier and hybrid engine: a get that returns a     *)
(* value strictly raises stats().hit_rate, or leaves it unchanged when it  *)
(* was already 1.0; it never lowers it.                                    *)
StoreStats(m, d) ==
    IF config.kind = "mem" THEN mem_stats(m)
    ELSE IF config.kind = "disk" THEN disk_stats(d)
    ELSE hybrid_stats([mem |-> m, disk |-> d])

RatGT(a, b) == a[1] * b[2] > b[1] * a[2]

C16_HitRaisesRate ==
    [][ (IsOp("get") /\ IsSome(last'.res))
        => LET r0 == hit_rate(StoreStats(memory_cache, disk_cache))
               r1 == hit_rate(StoreStats(memory_cache', disk_cache'))
           IN  \/ RatGT(r1, r0)
               \/ r0[1] = r0[2] /\ r1[1] = r1[2] ]_vars

(* C17: hybrid engine, in every state between operations:                 *)
(* stats().entry_count is the number of keys indexed by the disk tier,     *)
(* stats().size_bytes and size() are memory.size() + disk.size() (a value  *)
(* held by both tiers counts twice), and stats().hits and misses are the   *)
(* sums of the two tiers' counters.                                        *)
C17_HybridStats ==
    config.kind = "hybrid" =>
        /\ hybrid_stats(Hybrid).entry_count = Cardinality(DOMAIN disk_cache.index)
        /\ hybrid_stats(Hybrid).size_bytes
              = memory_cache.current_size + disk_cache.current_size
        /\ hybrid_size(Hybrid) = memory_cache.current_size + disk_cache.current_size
        /\ hybrid_stats(Hybrid).hits = memory_cache.hits + disk_cache.hits
        /\ hybrid_stats(Hybrid).misses = memory_cache.misses + disk_cache.misses

(* one key held by both tiers: one entry, its bytes counted twice *)
C17_Witness ==
    /\ config.kind = "hybrid"
    /\ Len(memory_cache.cache) = 1
    /\ DOMAIN disk_cache.index = {memory_cache.cache[1].key}
    /\ hybrid_stats(Hybrid).entry_count = 1
    /\ hybrid_stats(Hybrid).size_bytes = 2 * Len(memory_cache.cache[1].data)
    /\ hybrid_stats(Hybrid).hits >= 1 /\ hybrid_stats(Hybrid).misses >= 1

(* C18: hybrid engine without TTL, distinct keys with distinct file names  *)
(* each set once, the values together within the disk bound: every set     *)
(* returns Ok, every get of a key that was set returns the value set for   *)
(* it, and stats().entry_count is the number of keys set, for every        *)
(* memory_size (0 included) and every promotion_threshold.                 *)
C18_SetOnceThenGet ==
    /\ last.op = "set" => last.ok
    /\ last.op = "get" => last.res = Some(written[last.key].val)
    /\ hybrid_stats(Hybrid).entry_count = Cardinality(DOMAIN written)

(* an engine whose memory tier holds nothing has served a get of one of    *)
(* its two keys                                                            *)
C18_Witness ==
    /\ config.kind = "hybrid" /\ config.memory_size = 0
    /\ Cardinality(DOMAIN written) = 2
    /\ last.op = "get" /\ IsSome(last.res)

(* C19: stats() never waits: whatever locks other tasks hold or are queued *)
(* for, no caller of stats() is ever parked waiting for the lock.          *)
C19_StatsNeverWaits ==
    tasks # <<>> => \A t \in DOMAIN tasks : tasks[t].pc # "stats_wait"

(* C20: disk tier: dropping a pending set leaves size() equal to the sum   *)
(* of the indexed sizes, and the bytes it had already written to the file  *)
(* are reflected by the index on the next touch of the key: a get(k) that  *)
(* completes next, with the file still holding those bytes, returns them   *)
(* and leaves k indexed with their length.                                 *)
C20_DropKeepsWellFormed ==
    [][ tasks # <<>> =>
        /\ disk_size(disk_cache') = SumSizes(disk_cache'.index)
        /\ (/\ last.op = "drop" /\ last'.op = "get" /\ last'.key = last.key
            /\ key_to_path(last.key) \in DOMAIN disk_cache.files
            /\ disk_cache.files[key_to_path(last.key)] = last.val)
            => /\ last'.res = Some(last.val)
               /\ last.key \in DOMAIN disk_cache'.index
               /\ disk_cache'.index[last.key].size = Len(last.val) ]_vars


(* C21: key codec: for every coordinate vector a key parses to (vectors    *)
(* with negative components included), neighbors(coords, d) has at most    *)
(* 2*d*dim(coords) elements, every element differs from coords in exactly  *)
(* one dimension, and no element contains a negative coordinate.           *)
C21_NeighborsContract ==
    last.op = "neighbors" =>
        /\ Len(last.res) <= 2 * last.neighbor_count * Len(last.coords)
        /\ \A i \in 1..Len(last.res) :
              /\ Len(last.res[i]) = Len(last.coords)
              /\ Cardinality({k \in 1..Len(last.coords) :
                                 last.res[i][k] # last.coords[k]}) = 1
              /\ \A k \in 1..Len(last.res[i]) : last.res[i][k] >= 0


(* The coordinates written in the i-th key of a sequential result *)
SequentialCoords(i) == Unwrap(parse_zarr_chunk_key(last.res[i])).coords
SequentialName(i) == Unwrap(parse_zarr_chunk_key(last.res[i])).array_name

(* C22 as stated: sequential(coords, L) emits L keys, each formed from the *)
(* previously mutated vector: the last coordinate of the first key is +1,  *)
(* of the second +3, of the third +6 (the i-th: + i(i+1)/2).               *)
C22_Cumulative ==
    (last.op = "sequential" /\ last.coords # <<>>) =>
        /\ Len(last.res) = last.lookahead
        /\ \A i \in 1..Len(last.res) :
              SequentialCoords(i)[Len(last.coords)]
                 = last.coords[Len(last.coords)] + (i * (i + 1)) \div 2

(* C22 amended: each key is formed from the input vector: the last         *)
(* coordinate of the first key is +1, of the second +2, of the third +3.   *)
C22_FromInput ==
    (last.op = "sequential" /\ last.coords # <<>>) =>
        /\ Len(last.res) = last.lookahead
        /\ \A i \in 1..Len(last.res) :
              SequentialCoords(i)[Len(last.coords)]
                 = last.coords[Len(last.coords)] + i

(* three successors of a/1.2 were generated: a/1.3, a/1.4, a/1.5 *)
C22_Witness ==
    /\ last.op = "sequential" /\ last.lookahead = 3
    /\ last.array_name = <<"a">> /\ last.coords = <<1, 2>>
    /\ last.res = << <<"a", "/", "1", ".", "3">>, <<"a", "/", "1", ".", "4">>,
                     <<"a", "/", "1", ".", "5">> >>

(* C23: generate_sequential_keys(array, coords, L) returns exactly L keys  *)
(* when coords is not empty and none when coords is empty or L = 0; the    *)
(* i-th key has the array name of the input and the coordinates of the     *)
(* input except the last, which is the input's last coordinate + i.        *)
C23_SequentialKeys ==
    last.op = "sequential" =>
        /\ Len(last.res) = (IF last.coords = <<>> THEN 0 ELSE last.lookahead)
        /\ \A i \in 1..Len(last.res) :
              /\ parse_zarr_chunk_key(last.res[i]) # None
              /\ SequentialName(i) = last.array_name
              /\ SequentialCoords(i)
                   = [last.coords EXCEPT ![Len(last.coords)] = @ + i]

(* two successors of the two-dimensional /-1.2 were generated, and no key  *)
(* for an empty vector                                                     *)
C23_Witness ==
    /\ last.op = "sequential" /\ last.lookahead = 2
    /\ last.array_name = <<>> /\ last.coords = <<-1, 2>>
    /\ last.res = << <<"/", "-", "1", ".", "3">>, <<"/", "-", "1", ".", "4">> >>


(* C24: NeighborWarming(distance = 1, max = 8).generate_warming_keys on a  *)
(* context whose recent_access holds only "temperature/chunk_2.2.2"        *)
(* returns exactly the six keys temperature/chunk_3.2.2, chunk_1.2.2,      *)
(* chunk_2.3.2, chunk_2.1.2, chunk_2.2.3, chunk_2.2.1, each once.          *)
C24_SixNeighbors ==
    (/\ last.op = "generate_warming_keys"
     /\ last.strategy = NeighborWarmingNew(1, 8)
     /\ DOMAIN last.recent_access = {KeyChunk222})
        => /\ Range(last.res)
                = {TemperatureChunk(3, 2, 2), TemperatureChunk(1, 2, 2),
                   TemperatureChunk(2, 3, 2), TemperatureChunk(2, 1, 2),
                   TemperatureChunk(2, 2, 3), TemperatureChunk(2, 2, 1)}
           /\ Len(last.res) = 6


(* The steps of a warm in which the loader was called, and those counted: *)
(* the loader returned a value and cache.set succeeded                     *)
LoadSteps == {i \in 1..Len(last.steps) : last.steps[i].loaded # None}
WarmedSteps == {i \in 1..Len(last.steps) :
                   /\ last.steps[i].loaded # None
                   /\ Unwrap(last.steps[i].loaded) # None
                   /\ last.steps[i].stored}

(* C25 as stated: warm(loader) returns the number of generated keys for    *)
(* which the loader returned a value and cache.set succeeded, over all     *)
(* strategies; the loader is never called for a key that cache.get finds   *)
(* present; a key generated by two strategies is loaded and counted once.  *)
C25_WarmCountsOnce ==
    last.op = "warm" =>
        /\ last.ok
        /\ last.res = Cardinality(WarmedSteps)
        /\ \A i \in LoadSteps : ~last.steps[i].present
        /\ \A i, j \in LoadSteps : last.steps[i].key = last.steps[j].key => i = j
        /\ last.res = Cardinality({last.steps[i].key : i \in WarmedSteps})

(* C25 amended: a warm that returns Ok(n) has n equal to the number of     *)
(* (strategy, generated key) pairs for which the loader returned a value   *)
(* and cache.set succeeded; the loader is never called for a key that      *)
(* cache.get finds present, so a key generated by two strategies is loaded *)
(* again by the second one exactly when cache.get no longer finds it; a    *)
(* warm whose cache.set fails returns the error after that set.            *)
C25_WarmCountsPairs ==
    last.op = "warm" =>
        /\ last.ok => last.res = Cardinality(WarmedSteps)
        /\ \A i \in 1..Len(last.steps) :
              /\ (last.steps[i].loaded # None) = ~last.steps[i].present
              /\ (~last.ok /\ i = Len(last.steps))
                    = (/\ last.steps[i].loaded # None
                       /\ Unwrap(last.steps[i].loaded) # None
                       /\ ~last.steps[i].stored)

(* a warm of two strategies that generated the same key: the first loaded  *)
(* and stored it, the second found it present and did not load it again    *)
C25_Witness ==
    /\ last.op = "warm" /\ last.ok /\ last.res = 1
    /\ \E i, j \in 1..Len(last.steps) :
          /\ last.steps[i].strategy = 1 /\ last.steps[j].strategy = 2
          /\ last.steps[i].key = last.steps[j].key
          /\ last.steps[i].stored /\ last.steps[j].present


(* The i-th and (i+1)-th recorded chunk keys form a strict axis-neighbour  *)
(* pair: same array name and arity, one dimension differing by exactly 1,  *)
(* the others equal.                                                       *)
RecordedCoord(i) == Unwrap(parse_chunk_coordinate(stream[i]))
StrictNeighbors(i) ==
    LET a == RecordedCoord(i)
        b == RecordedCoord(i + 1)
    IN  /\ a.array_name = b.array_name
        /\ Len(a.coordinates) = Len(b.coordinates)
        /\ \E k \in 1..Len(a.coordinates) :
              /\ a.coordinates[k] - b.coordinates[k] \in {-1, 1}
              /\ \A j \in 1..Len(a.coordinates) :
                    j # k => a.coordinates[j] = b.coordinates[j]

(* C26: analytics collector: the reported spatial-locality score is in     *)
(* [0, 1]; it is 1 when every consecutive pair of recorded chunk keys is a *)
(* strict axis-neighbour pair, and 0 when fewer than 2 chunk keys were     *)
(* recorded or no consecutive pair is a neighbour pair.                    *)
C26_LocalityScore ==
    last.op = "generate_report" =>
        LET score == last.spatial_locality_score
            pairs == 1..(Len(stream) - 1)
        IN  /\ score[2] > 0 /\ 0 <= score[1] /\ score[1] <= score[2]
            /\ (Len(stream) >= 2 /\ \A i \in pairs : StrictNeighbors(i))
                  => score[1] = score[2]
            /\ (Len(stream) < 2 \/ \A i \in pairs : ~StrictNeighbors(i))
                  => score[1] = 0

(* a/chunk_0.0 then a/chunk_0.1 were recorded and the report gives 1 *)
C26_Witness ==
    /\ last.op = "generate_report"
    /\ stream = <<AChunk(<<0, 0>>), AChunk(<<0, 1>>)>>
    /\ last.spatial_locality_score = <<1, 1>>


(* The engine at the start of the maintenance pass of a get(key) that      *)
(* missed both tiers: the access is tracked and both tiers were looked up. *)
PassStart(key) ==
    LET h == [Hybrid EXCEPT !.tracker = track_access(access_tracker, key, now)]
    IN  [h EXCEPT !.mem = mem_get(h.mem, key, now, config.ttl).m,
                  !.disk = disk_get(h.disk, key, now, config.ttl).d]

(* this step is a get that missed both tiers and ran a maintenance pass *)
PassRan ==
    /\ config.kind = "hybrid" /\ IsOp("get") /\ last'.res = None
    /\ now - last_maintenance >= config.maintenance_interval

(* C27: maintenance pass: every key whose tracker entry has                *)
(* now - last_access > demotion_threshold and which is in the memory tier  *)
(* when the pass starts is, when the pass ends, on disk and no longer in   *)
(* the memory tier, whatever its access frequency.                         *)
C27_IdleKeysDemoted ==
    [][ PassRan =>
        \A k \in DOMAIN PassStart(last'.key).tracker :
            (/\ now - PassStart(last'.key).tracker[k].last_access
                   > config.demotion_threshold
             /\ MemHas(PassStart(last'.key).mem, k))
                => /\ ~MemHas(memory_cache', k)
                   /\ k \in DOMAIN disk_cache'.index ]_vars

(* C30: maintenance pass: when the pass ends the access tracker contains   *)
(* no entry idle for more than 2 x demotion_threshold, and every entry     *)
(* idle for at most 2 x demotion_threshold at its start is kept with its   *)
(* count unchanged.                                                        *)
C30_TrackerPruned ==
    [][ PassRan =>
        /\ \A k \in DOMAIN access_tracker' :
              now - access_tracker'[k].last_access <= 2 * config.demotion_threshold
        /\ \A k \in DOMAIN PassStart(last'.key).tracker :
              now - PassStart(last'.key).tracker[k].last_access
                 <= 2 * config.demotion_threshold
                 => /\ k \in DOMAIN access_tracker'
                    /\ access_tracker'[k].count
                          = PassStart(last'.key).tracker[k].count ]_vars

(* a get has just run a pass that pruned a key the disk tier still holds,  *)
(* and kept the entry of the key it was called for                         *)
C30_Witness ==
    /\ config.kind = "hybrid" /\ config.ops = MaintOps
    /\ last.op = "get" /\ last.res = None /\ last_maintenance = now
    /\ last.key \in DOMAIN access_tracker
    /\ \E k \in DOMAIN disk_cache.index : k \notin DOMAIN access_tracker


(* C28: hybrid get(k) that misses the memory tier and hits the disk tier   *)
(* returns the disk value; if the key's tracked frequency is at least      *)
(* promotion_threshold and the value fits the memory tier, then on return  *)
(* k is in the memory tier with that value and promoted_at is set; a       *)
(* failed memory write still returns the value.                            *)
C28_DiskHitPromotes ==
    [][ (/\ config.kind = "hybrid" /\ IsOp("get")
         /\ mem_get(memory_cache, last'.key, now, config.ttl).res = None
         /\ disk_get(disk_cache, last'.key, now, config.ttl).res # None)
        => LET k == last'.key
               v == disk_get(disk_cache, k, now, config.ttl).res
               info == track_access(access_tracker, k, now)[k]
           IN  /\ last'.res = v
               /\ (/\ RatGE(frequency(info), config.promotion_threshold)
                   /\ Len(Unwrap(v)) <= config.memory_size)
                     => /\ MemHas(memory_cache', k)
                        /\ MemEntry(memory_cache', k).data = Unwrap(v)
                        /\ access_tracker'[k].promoted_at = Some(now) ]_vars


(* C29: hybrid engine, concurrent gets: a maintenance pass is started only *)
(* by a get whose memory lookup and disk lookup both missed, only when at  *)
(* least maintenance_interval has passed since last_maintenance (the       *)
(* creation time before the first pass), and starting it sets              *)
(* last_maintenance to the current instant: any two pass starts are at     *)
(* least maintenance_interval apart.                                       *)
C29_PassesSpaced ==
    config.kind = "hybridconc" =>
      /\ last_maintenance = IF stream = <<>> THEN 0 ELSE stream[Len(stream)].at
      /\ \A i \in DOMAIN stream :
           /\ stream[i].mem = None /\ stream[i].disk = None
           /\ stream[i].at - (IF i = 1 THEN 0 ELSE stream[i - 1].at)
                >= config.maintenance_interval
      /\ \A i, j \in DOMAIN stream :
           i < j => stream[j].at - stream[i].at >= config.maintenance_interval

C29_Witness ==
    /\ config.kind = "hybridconc"
    /\ Len(stream) = 2 /\ stream[1].task # stream[2].task
    /\ \E t \in Tasks : tasks[t].pc = "pass"
    /\ \E t \in Tasks : tasks[t].pc = "maintenance"


(* C31: bounded tier, concurrent sets on distinct keys: once every set has *)
(* completed, the bytes stored and size() are within the maximum.          *)
C31_BoundAfterSets ==
    (/\ config.kind \in {"disk", "mem"} /\ tasks # <<>>
     /\ \A t \in Tasks : tasks[t].pc = "idle")
      => IF config.kind = "disk"
         THEN /\ SumSizes(disk_cache.index) <= Unwrap(config.disk_size)
              /\ disk_size(disk_cache) <= Unwrap(config.disk_size)
         ELSE /\ SumLen(memory_cache.cache) <= config.memory_size
              /\ mem_size(memory_cache) <= config.memory_size


(* C32: hybrid access info: the frequency of every tracked key is its      *)
(* count divided by the larger of one second and the time from promoted_at *)
(* (last_access minus one second when never promoted) to the last access:  *)
(* positive and never above count, also right after a promotion.           *)
FrequencyWindow(info) ==
    LET since == IF IsSome(info.promoted_at) THEN Unwrap(info.promoted_at)
                 ELSE info.last_access - TicksPerSec
        age == IF info.last_access > since THEN info.last_access - since ELSE 0
    IN  IF age > TicksPerSec THEN age ELSE TicksPerSec

C32_FrequencyCapped ==
    config.kind = "hybrid" =>
      \A k \in DOMAIN access_tracker :
        LET info == access_tracker[k]
            f == frequency(info)
        IN  /\ f[2] > 0 /\ f[1] > 0
            /\ f[1] * FrequencyWindow(info) = info.count * TicksPerSec * f[2]
            /\ RatGE(<<info.count, 1>>, f)


(* C33: NeighborChunkPrefetch.prefetch with max_queue_size = m passes to   *)
(* the loader exactly the last min(m, u) of the u input keys that were not *)
(* cached when checked, in input order, and leaves its queue empty.        *)
RECURSIVE Uncached(_, _)
Uncached(m, keys) ==
    IF keys = <<>> THEN <<>>
    ELSE LET g == mem_get(m, Head(keys), now, config.ttl)
         IN  (IF g.res = None THEN <<Head(keys)>> ELSE <<>>) \o Uncached(g.m, Tail(keys))

LastOf(seq, n) ==
    IF Len(seq) <= n THEN seq ELSE SubSeq(seq, Len(seq) - n + 1, Len(seq))

C33_LastUncached ==
    (config.kind = "prefetch" /\ last.op = "neighbor")
      => /\ last.calls = LastOf(Uncached(last.before, last.keys), config.max_queue_size)
         /\ stream = <<>>


(* C34: SequentialPrefetch.prefetch makes the same loader calls and leaves *)
(* the same cache contents as NeighborChunkPrefetch.prefetch from the same *)
(* cache, key list, loader and max_queue_size.                             *)
Contents(m) == {<<m.cache[i].key, m.cache[i].data>> : i \in DOMAIN m.cache}

SameAsSequential ==
    /\ last.calls = last.other.calls
    /\ Contents(memory_cache) = Contents(last.other.m)

C34_SameAsNeighbor ==
    (config.kind = "prefetch" /\ last.op = "neighbor") => SameAsSequential


(* C34 as amended: the two strategies agree when at most max_queue_size    *)
(* keys are supplied, the keys are distinct and the cache has room for     *)
(* every value the loader returns.                                         *)
Distinct(seq) == \A i, j \in DOMAIN seq : i # j => seq[i] # seq[j]

RECURSIVE LoadedBytes(_)
LoadedBytes(keys) ==
    IF keys = <<>> THEN 0
    ELSE (IF load(config.loader, Head(keys)) = None THEN 0
          ELSE Len(Unwrap(load(config.loader, Head(keys)))))
         + LoadedBytes(Tail(keys))

FewDistinctWithRoom ==
    /\ config.kind = "prefetch" /\ last.op = "neighbor"
    /\ Len(last.keys) <= config.max_queue_size
    /\ Distinct(last.keys)
    /\ mem_size(last.before) + LoadedBytes(last.calls) <= config.memory_size

C34_SameWhenFewDistinct == FewDistinctWithRoom => SameAsSequential

C34_Witness ==
    /\ FewDistinctWithRoom
    /\ Len(last.keys) = 2 /\ last.calls = <<last.keys[2]>>
    /\ MemHas(last.before, last.keys[1])
    /\ MemHas(memory_cache, last.keys[2])


(* C35: analytics collector with access patterns tracked: record_operation *)
(* records a spatial coordinate for a key exactly when parse_zarr_chunk_key *)
(* parses the key, and then with the same array name and coordinates.      *)
C35_ParsersAgree ==
    [][ (/\ config.kind = "metrics" /\ config.track_access_patterns
         /\ IsOp("record_operation"))
        => LET before == access_patterns.spatial_locality.recent_sequence
               after == access_patterns'.spatial_locality.recent_sequence
               recorded == Len(after) = Len(before) + 1
               parsed == parse_zarr_chunk_key(last'.key)
           IN  /\ recorded <=> parsed # None
               /\ recorded =>
                    /\ after[Len(after)].array_name = Unwrap(parsed).array_name
                    /\ after[Len(after)].coordinates = Unwrap(parsed).coords ]_vars


(* C36: hybrid engine, between operations: a key held by both the memory   *)
(* tier and the disk tier has the same value in both.                      *)
C36_TiersCoherent ==
    config.kind = "hybrid" =>
      \A k \in DOMAIN disk_cache.index :
        MemHas(memory_cache, k)
          => MemEntry(memory_cache, k).data = disk_cache.files[key_to_path(k)]


(* C37: hybrid engine, concurrent tasks: once remove(k) or clear has       *)
(* completed, with no set(k) in flight then or issued since, a get(k)      *)
(* started when every other operation has completed returns absence.       *)
C37_RemovedStaysAbsent ==
    (config.kind = "steps" /\ \A t \in Tasks : tasks[t].pc = "idle")
      => \A k \in DOMAIN offered :
           \A r \in hybrid_get(Hybrid, k, now, config) : r.res = None


(* C39: hybrid engine, concurrent get/set/remove/clear: at most one task   *)
(* executes a maintenance pass at a time, while a pass runs the access     *)
(* tracker is changed by no step other than the end of that pass, and      *)
(* under fair scheduling every started operation completes.                *)
InPass == {t \in Tasks : tasks[t].pc = "pass"}

C39_ExclusiveAndLive ==
    /\ [](config.kind = "steps" => Cardinality(InPass) <= 1)
    /\ [][(config.kind = "steps" /\ InPass # {} /\ access_tracker' # access_tracker)
            => \E t \in InPass : tasks'[t].pc = "idle"]_vars
    /\ \A t \in Tasks : (tasks[t].pc # "idle") ~> (tasks[t].pc = "idle")

C39_Witness ==
    /\ config.kind = "steps"
    /\ \E t, u \in Tasks :
         /\ tasks[t].pc = "pass"
         /\ tasks[u].pc \in {"track", "mark", "tracker", "should_promote",
                             "should_cache", "run"}


(* C38: disk tier: a set or a remove of one key, and the evictions it      *)
(* makes, leave what get returns for every other key that the step did not *)
(* itself evict as it was, also when the keys differ only in '/', '\' and  *)
(* '_'.                                                                    *)
C38_KeysIsolated ==
    [][\A k1 \in Keys :
         (/\ config.kind = "disk" /\ nops' # nops
          /\ last'.op \in {"set", "remove"}
          /\ last'.key # k1
          /\ k1 \notin DOMAIN last'.evicted)
           => disk_get(disk_cache', k1, now, config.ttl).res
                = disk_get(disk_cache, k1, now, config.ttl).res]_vars


(* C40: memory tier, and disk tier with a maximum: after a set that        *)
(* returned CacheFull the tier holds no entry (entry_count is 0), get      *)
(* returns absence for every key, the rejected key among them.             *)
C40_CacheFullEmpties ==
    (last.op = "set" /\ ~last.ok /\ nops > 0)
      => /\ config.kind = "mem"
              => /\ mem_stats(memory_cache).entry_count = 0
                 /\ \A k \in Keys :
                      mem_get(memory_cache, k, now, config.ttl).res = None
         /\ config.kind = "disk"
              => /\ disk_stats(disk_cache).entry_count = 0
                 /\ \A k \in Keys :
                      disk_get(disk_cache, k, now, config.ttl).res = None

C40_Witness ==
    /\ config.kind = "disk" /\ nops > 0
    /\ last.op = "set" /\ ~last.ok
    /\ DOMAIN last.evicted # {}

====
